---- MODULE Spec2Model ----
(***************************************************************************)
(* Model of dwlearn. The article-page renderer                             *)
(* (src/src/websiteGenerator.ts): the vocabulary highlighter highlightWord, *)
(* the heading heuristic isSubheading and the paragraph pipeline            *)
(* processedParagraphs of generateArticlePage. The feed and content reader  *)
(* (src/src/dwService.ts) and the run of the application (index.ts).        *)
(*                                                                         *)
(* Text is a TLA+ string; Len, SubSeq and \o act on it character by         *)
(* character, as JavaScript's length, substring and + do.                   *)
(***************************************************************************)
EXTENDS Integers, Sequences, FiniteSets, TLC

VARIABLES
    content,       \* article.content, the raw article text
    explanations,  \* the article's WordExplanation list, in the order given
    pc,            \* "input" -> "page" -> "again"
    sorted,        \* sortedExplanations, the order highlightWord applies the terms in
    paragraphs,    \* the trimmed pieces of content.split('\n\n')
    results,       \* highlightWord(trimmed) of every non-blank piece ("" for a blank one)
    patterns,      \* escapedWord of every term of sorted, the middle of its pattern
    processed,     \* processedParagraphs, the joined markup of the page body
    again,         \* highlightWord applied a second time to every result
    order,         \* another order of the explanations, as a permutation of their indexes
    permuted,      \* highlightWord of every piece with the explanations in that order
    hText,         \* one piece p of article.content.split('\n\n')
    hTrimmed,      \* p.trim()
    hVerdict,      \* isSubheading(trimmed), "none" before the piece is rendered
    hMarkup,       \* what the map callback returns for the piece
    hpc,           \* "idle" | "piece" -> "rendered"
    feed,          \* the items of the RSS feed, in document order
    feedOk,        \* whether the request for the feed succeeds
    limit,         \* the argument of getLatestArticles
    latest,        \* what getLatestArticles returns
    fpc,           \* "idle" | "call" -> "returned" | "thrown"
    cArticle,      \* the argument of getArticleContent
    cReply,        \* what the GraphQL endpoint answers to the request
    cId,           \* articleId, the value of parseInt(article.id)
    cFetched,      \* content, what fetchFromGraphQL returns
    cResult,       \* what getArticleContent returns
    cpc,           \* "idle" | "parse" -> "fetch" -> "decide" -> "returned"
    files,         \* ./data: per day the file processed-articles-<day>.json
    today,         \* the index of the day of the run
    rss,           \* the items of the feed at the time of the run
    rssOk,         \* whether the request for the feed succeeds
    existingData,  \* run: const existingData
    newArticles,   \* run: const newArticles
    idx,           \* run: the loop variable i, counted from 1
    explained,     \* run: const explanations of the article in work
    newProcessed,  \* run: const newProcessedArticles
    calls,         \* the calls to the outside made so far, in order
    caught,        \* the values of i for which the catch of the loop has run
    lastReply,     \* what the model service did with the latest prompt
    runNo,         \* the number of the run, counted from 1
    filesBefore,   \* ./data as it was when the run started
    everLoaded,    \* the records that the runs so far have loaded
    website,       \* ./public: the articles the site was last generated from
    exited,        \* "running" | "returned" | "exit1"
    rpc,           \* the position in run
    quizData,      \* article page: const quizData, the correctAnswer of every question
    selected,      \* per question the values of its checked radio inputs
    feedbackShown, \* per question: .answer-feedback has display block
    feedbackWrong, \* per question: .answer-feedback has the class incorrect
    borderColor,   \* per question: style.borderColor
    quizResults,   \* #quiz-results: what it shows
    checkDisabled, \* .check-button is disabled
    siteArticles,  \* generateWebsite: the argument articles
    indexLinks,    \* ./public/index.html: the article links, in page order
    articleFiles,  \* ./public/articles: the files, each with the article it shows
    assets,        \* the other files written: index.html, css/style.css, js/quiz.js
    sidx,          \* generateWebsite: the place of the loop in articles, from 1
    spc            \* "idle" | "index" -> "pages" -> "assets" -> "done"

pageVars ==
    <<content, explanations, pc, sorted, patterns, paragraphs, results, processed,
      again, order, permuted>>

headVars == <<hText, hTrimmed, hVerdict, hMarkup, hpc>>

feedVars == <<feed, feedOk, limit, latest, fpc>>

contentVars == <<cArticle, cReply, cId, cFetched, cResult, cpc>>

serviceVars == <<feedVars, contentVars>>

appVars ==
    <<files, today, rss, rssOk, existingData, newArticles, idx, explained,
      newProcessed, calls, caught, lastReply, runNo, filesBefore, everLoaded, website, exited,
      rpc>>

quizVars ==
    <<quizData, selected, feedbackShown, feedbackWrong, borderColor, quizResults,
      checkDisabled>>

siteVars == <<siteArticles, indexLinks, articleFiles, assets, sidx, spc>>

vars == <<pageVars, headVars, serviceVars, appVars, quizVars, siteVars>>

\* getLatestArticles is not being called by itself.
FeedIdle ==
    /\ feed = <<>>
    /\ feedOk = TRUE
    /\ limit = 0
    /\ latest = <<>>
    /\ fpc = "idle"

NaN == [nan |-> TRUE, value |-> 0]

NoArticle == [id |-> "", title |-> "", description |-> "", url |-> "", content |-> ""]

NoReply == [kind |-> "none", text |-> ""]

\* getArticleContent is not being called by itself.
ContentIdle ==
    /\ cArticle = NoArticle
    /\ cReply = NoReply
    /\ cId = NaN
    /\ cFetched = ""
    /\ cResult = ""
    /\ cpc = "idle"

ServiceIdle == FeedIdle /\ ContentIdle

\* An array of the given length; a value that is no array.
Arr(n) == [isArray |-> TRUE, length |-> n]

Null == [isArray |-> FALSE, length |-> 0]

NoSite == [generated |-> FALSE, data |-> <<>>]

NoResults == [shown |-> FALSE, class |-> "", correct |-> 0, total |-> 0, percentage |-> NaN]

\* No article page is open.
QuizIdle ==
    /\ quizData = <<>>
    /\ selected = <<>>
    /\ feedbackShown = <<>>
    /\ feedbackWrong = <<>>
    /\ borderColor = <<>>
    /\ quizResults = NoResults
    /\ checkDisabled = FALSE

\* generateWebsite is not being called by itself.
SiteIdle ==
    /\ siteArticles = <<>>
    /\ indexLinks = <<>>
    /\ articleFiles = {}
    /\ assets = {}
    /\ sidx = 0
    /\ spc = "idle"

\* The application is not running.
AppIdle ==
    /\ files = <<>>
    /\ today = 0
    /\ rss = <<>>
    /\ rssOk = TRUE
    /\ existingData = <<>>
    /\ newArticles = <<>>
    /\ idx = 0
    /\ explained = Null
    /\ newProcessed = <<>>
    /\ calls = <<>>
    /\ caught = {}
    /\ lastReply = ""
    /\ runNo = 0
    /\ filesBefore = <<>>
    /\ everLoaded = {}
    /\ website = NoSite
    /\ exited = "running"
    /\ rpc = "idle"

----------------------------------------------------------------------------
(* Characters *)

Char(s, i) == SubSeq(s, i, i)

Chars(s) == {Char(s, i) : i \in 1..Len(s)}

Min(S) == CHOOSE x \in S : \A y \in S : x <= y

Max(S) == CHOOSE x \in S : \A y \in S : x >= y

\* TLC keeps one byte of every character of a string, so the German letters
\* beyond ASCII are written with one stand-in character each. The stand-ins
\* occur nowhere else: not in the texts, not in the markup, not in RegexMeta.
\* a-umlaut, o-umlaut, u-umlaut and sharp s:
ae == "@"

oe == "~"

ue == "_"

sz == "%"

\* A-umlaut, O-umlaut and U-umlaut:
Ae == "4"

Oe == "6"

Ue == "7"

\* The letters of the texts modelled here: \p{L} restricted to German text.
LowerLetters == "abcdefghijklmnopqrstuvwxyz" \o ae \o oe \o ue \o sz

UpperLetters == "ABCDEFGHIJKLMNOPQRSTUVWXYZ" \o Ae \o Oe \o Ue

AsciiLetterSet == Chars("abcdefghijklmnopqrstuvwxyzABCDEFGHIJKLMNOPQRSTUVWXYZ")

LetterSet == Chars(LowerLetters) \cup Chars(UpperLetters)

UpperSet == Chars(UpperLetters)

\* The mutant of IsLetter: an ASCII-only letter class ([A-Za-z], as \b and \w use).
IsAsciiLetter(c) == c \in AsciiLetterSet

\* \p{L} of the pattern, under the u flag.
IsLetter(c) == c \in LetterSet

\* [^\p{L}]: one character that is not a letter.
IsNonLetter(c) == Len(c) = 1 /\ ~IsLetter(c)

\* Canonicalize of a character under the flags i and u: simple case folding.
\* The capital letters fold to their small letters; sharp s and every non-letter
\* fold to themselves.
Fold(c) ==
    IF c \in UpperSet
    THEN Char(LowerLetters, CHOOSE i \in 1..Len(UpperLetters) : Char(UpperLetters, i) = c)
    ELSE c

\* The whitespace String.prototype.trim removes and \s matches.
WhiteSpace == {" ", "\n", "\t", "\r"}

----------------------------------------------------------------------------
(* escapeHtml *)

RECURSIVE ReplaceAll(_, _, _)
\* raw.replace(/c/g, ent) for a one-character pattern c.
ReplaceAll(s, c, ent) ==
    IF s = "" THEN ""
    ELSE (IF Char(s, 1) = c THEN ent ELSE Char(s, 1))
             \o ReplaceAll(SubSeq(s, 2, Len(s)), c, ent)

escapeHtml(raw) ==
    ReplaceAll(ReplaceAll(ReplaceAll(ReplaceAll(ReplaceAll(raw,
        "&", "&amp;"), "<", "&lt;"), ">", "&gt;"), "\"", "&quot;"), "'", "&#39;")

----------------------------------------------------------------------------
(* The search pattern of one term *)

\* The characters exp.word.replace(/[.*+?^${}()|[\]\\]/g, '\\$&') puts a
\* backslash before.
\* The mutant of RegexMeta: a class the dot was left out of.
RegexMetaNoDot == {"*", "+", "?", "^", "$", "{", "}", "(", ")", "|", "[", "]", "\\"}

RegexMeta == {".", "*", "+", "?", "^", "$", "{", "}", "(", ")", "|", "[", "]", "\\"}

RECURSIVE escapedWord(_)
escapedWord(word) ==
    IF word = "" THEN ""
    ELSE (IF Char(word, 1) \in RegexMeta THEN "\\" \o Char(word, 1) ELSE Char(word, 1))
             \o escapedWord(SubSeq(word, 2, Len(word)))

\* The atom a dot that is not escaped compiles to: it matches any one
\* character but a line terminator. It is written with the form feed, which
\* occurs in no word and no text modelled here.
AnyChar == "\f"

LineTerminators == {"\n", "\r"}

RECURSIVE PatternLiteral(_)
\* The atoms the middle group (${escapedWord}) of the pattern stands for, one
\* character each: a backslash followed by a syntax character is that
\* character, a dot without a backslash is AnyChar, any other character is
\* itself.
PatternLiteral(src) ==
    IF src = "" THEN ""
    ELSE IF Char(src, 1) = "\\" /\ Len(src) >= 2
         THEN Char(src, 2) \o PatternLiteral(SubSeq(src, 3, Len(src)))
         ELSE (IF Char(src, 1) = "." THEN AnyChar ELSE Char(src, 1))
                  \o PatternLiteral(SubSeq(src, 2, Len(src)))

\* One atom of the pattern against one character of the text, under flag i.
AtomMatches(a, c) ==
    IF a = AnyChar THEN c \notin LineTerminators ELSE Fold(c) = Fold(a)

\* The mutant of WordAt: the text is compared after stripping the umlaut dots
\* as well, as a locale-insensitive comparison would.
StripDiacritic(c) ==
    IF c = ae THEN "a" ELSE IF c = oe THEN "o" ELSE IF c = ue THEN "u" ELSE c

WordAtLoose(t, j, w) ==
    /\ j >= 1
    /\ j + Len(w) - 1 <= Len(t)
    /\ \A k \in 1..Len(w) :
          \/ AtomMatches(Char(w, k), Char(t, j + k - 1))
          \/ StripDiacritic(Fold(Char(t, j + k - 1))) = StripDiacritic(Fold(Char(w, k)))

\* The group (${escapedWord}) matches at index j of t: atom by atom, a
\* character compared after case folding (flag i).
WordAt(t, j, w) ==
    /\ j >= 1
    /\ j + Len(w) - 1 <= Len(t)
    /\ \A k \in 1..Len(w) : AtomMatches(Char(w, k), Char(t, j + k - 1))

\* The mutant of LookaheadAt: no condition on what follows the word.
LookaheadAny(t, j) == TRUE

\* (?=([^\p{L}]|$)) at index j, the index after the word.
LookaheadAt(t, j) == j > Len(t) \/ IsNonLetter(Char(t, j))

\* The mutant of AltStart: a pattern without the alternative ^.
AltStartNever(t, w) == FALSE

\* The first alternative of (^|[^\p{L}]): the word starts the text.
AltStart(t, w) == WordAt(t, 1, w) /\ LookaheadAt(t, 1 + Len(w))

\* The second alternative: a non-letter at index i, then the word.
AltSep(t, w, i) ==
    /\ IsNonLetter(Char(t, i))
    /\ WordAt(t, i + 1, w)
    /\ LookaheadAt(t, i + 1 + Len(w))

\* The indexes at which the whole pattern matches.
MatchBegins(t, w) ==
    {i \in 1..Len(t) : (i = 1 /\ AltStart(t, w)) \/ AltSep(t, w, i)}

\* The length of group 1 (p1) of the match that begins at i: the alternative
\* ^ is tried first.
SepLen(t, w, i) == IF i = 1 /\ AltStart(t, w) THEN 0 ELSE 1

----------------------------------------------------------------------------
(* The tooltip markup *)

\* exp.partOfSpeech || '' and exp.example || '': a missing or empty field.
FieldOrEmpty(exp, f) == IF f \in DOMAIN exp THEN exp[f] ELSE ""

\* The mutant of tooltip: the example element is written unconditionally.
tooltipAlwaysExample(exp, p2) ==
    LET safeWord == escapeHtml(p2)
        safeDef == escapeHtml(exp.definition)
        safePos == escapeHtml(FieldOrEmpty(exp, "partOfSpeech"))
        safeExample == escapeHtml(FieldOrEmpty(exp, "example"))
    IN  "<span class=\"explained-word " \o exp.difficulty
            \o "\"><span class=\"ew-term\">" \o safeWord
            \o "</span><span class=\"tooltip-text\"><strong>" \o safeWord
            \o "</strong><br/><em>" \o safePos \o "</em><br/>" \o safeDef
            \o "<br/><span class=\"example\">" \o safeExample \o "</span>"
            \o "</span></span>"

\* The replacement of one match, without the kept separator p1.
tooltip(exp, p2) ==
    LET safeWord == escapeHtml(p2)
        safeDef == escapeHtml(exp.definition)
        safePos == escapeHtml(FieldOrEmpty(exp, "partOfSpeech"))
        safeExample == escapeHtml(FieldOrEmpty(exp, "example"))
    IN  "<span class=\"explained-word " \o exp.difficulty
            \o "\"><span class=\"ew-term\">" \o safeWord
            \o "</span><span class=\"tooltip-text\"><strong>" \o safeWord
            \o "</strong><br/><em>" \o safePos \o "</em><br/>" \o safeDef
            \o (IF safeExample # ""
                THEN "<br/><span class=\"example\">" \o safeExample \o "</span>"
                ELSE "")
            \o "</span></span>"

----------------------------------------------------------------------------
(* highlightWord *)

RECURSIVE ReplaceFrom(_, _, _, _, _)
\* result.replace(regex, ...) with the flag g, from lastIndex = from on: the
\* leftmost match that begins at or after lastIndex is replaced by p1 and the
\* tooltip of p2, and the search goes on after the end of p2.
ReplaceFrom(t, w, exp, from, begins) ==
    LET later == {i \in begins : i >= from}
    IN  IF later = {} THEN SubSeq(t, from, Len(t))
        ELSE LET i == Min(later)
                 k == i + SepLen(t, w, i)
                 e == k + Len(w)
             IN  SubSeq(t, from, k - 1) \o tooltip(exp, SubSeq(t, k, e - 1))
                     \o ReplaceFrom(t, w, exp, e, begins)

\* One pass of the loop body: every match of the term in the working text.
ReplaceTerm(t, exp) ==
    LET w == PatternLiteral(escapedWord(exp.word))
    IN  ReplaceFrom(t, w, exp, 1, MatchBegins(t, w))

\* The mutant of sortedExplanations: the terms are applied in the order given.
sortedExplanationsAsGiven(exps) == exps

\* [...explanations].sort((a, b) => b.word.length - a.word.length): a stable
\* sort, longest word first.
sortedExplanations(exps) ==
    LET Before(i, j) ==
            \/ Len(exps[i].word) > Len(exps[j].word)
            \/ Len(exps[i].word) = Len(exps[j].word) /\ i < j
        Rank(i) == 1 + Cardinality({j \in DOMAIN exps : Before(j, i)})
    IN  [p \in DOMAIN exps |-> exps[CHOOSE i \in DOMAIN exps : Rank(i) = p]]

RECURSIVE ApplyFrom(_, _, _)
\* for (const exp of sortedExplanations) from the k-th term on.
ApplyFrom(result, exps, k) ==
    IF k > Len(exps) THEN result
    ELSE ApplyFrom(ReplaceTerm(result, exps[k]), exps, k + 1)

highlightWord(paragraph, exps) == ApplyFrom(paragraph, sortedExplanations(exps), 1)

----------------------------------------------------------------------------
(* isSubheading *)

MinHeadingLength == 3

MaxHeadingLength == 120

MaxHeadingWords == 12

\* capitalized.length / words.length >= 0.6, as a ratio of integers
RatioNum == 6

RatioDen == 10

SentenceEnds == {".", "!", "?"}

\* The bullet U+2022, written with a stand-in character that occurs nowhere
\* else.
Bullet == "#"

\* The characters of the class of /^[-*...]/, the third being the bullet.
BulletMarkers == {"-", "*", Bullet}

\* [A-Z] and the three capital umlauts
HeadingCapitals == Chars("ABCDEFGHIJKLMNOPQRSTUVWXYZ" \o Ae \o Oe \o Ue)

\* text.split(/\s+/).filter(Boolean): the index at which each word begins.
WordStarts(text) ==
    {i \in 1..Len(text) :
        /\ Char(text, i) \notin WhiteSpace
        /\ (i = 1 \/ Char(text, i - 1) \in WhiteSpace)}

\* The mutant of isSubheading for the length: no upper bound.
isSubheadingAnyLength(text) ==
    IF Len(text) < MinHeadingLength THEN FALSE
    ELSE IF Char(text, Len(text)) \in SentenceEnds THEN FALSE
    ELSE IF Char(text, 1) \in BulletMarkers THEN FALSE
    ELSE LET words == WordStarts(text)
             capitalized == {i \in words : Char(text, i) \in HeadingCapitals}
         IN  /\ Cardinality(words) > 0
             /\ Cardinality(words) <= MaxHeadingWords
             /\ RatioDen * Cardinality(capitalized) >= RatioNum * Cardinality(words)

\* The mutant of isSubheading for the ratio: more than 60% is asked for.
isSubheadingStrictRatio(text) ==
    IF Len(text) < MinHeadingLength \/ Len(text) > MaxHeadingLength THEN FALSE
    ELSE IF Char(text, Len(text)) \in SentenceEnds THEN FALSE
    ELSE IF Char(text, 1) \in BulletMarkers THEN FALSE
    ELSE LET words == WordStarts(text)
             capitalized == {i \in words : Char(text, i) \in HeadingCapitals}
         IN  /\ Cardinality(words) > 0
             /\ Cardinality(words) <= MaxHeadingWords
             /\ RatioDen * Cardinality(capitalized) > RatioNum * Cardinality(words)

isSubheading(text) ==
    IF Len(text) < MinHeadingLength \/ Len(text) > MaxHeadingLength THEN FALSE
    ELSE IF Char(text, Len(text)) \in SentenceEnds THEN FALSE
    ELSE IF Char(text, 1) \in BulletMarkers THEN FALSE
    ELSE LET words == WordStarts(text)
             capitalized == {i \in words : Char(text, i) \in HeadingCapitals}
         IN  /\ Cardinality(words) > 0
             /\ Cardinality(words) <= MaxHeadingWords
             /\ RatioDen * Cardinality(capitalized) >= RatioNum * Cardinality(words)

----------------------------------------------------------------------------
(* processedParagraphs *)

RECURSIVE SplitBlankLines(_)
\* article.content.split('\n\n')
SplitBlankLines(s) ==
    LET at == {i \in 1..(Len(s) - 1) : SubSeq(s, i, i + 1) = "\n\n"}
    IN  IF at = {} THEN <<s>>
        ELSE <<SubSeq(s, 1, Min(at) - 1)>>
                 \o SplitBlankLines(SubSeq(s, Min(at) + 2, Len(s)))

\* p.trim()
trim(s) ==
    LET kept == {i \in 1..Len(s) : Char(s, i) \notin WhiteSpace}
    IN  IF kept = {} THEN "" ELSE SubSeq(s, Min(kept), Max(kept))

RECURSIVE JoinFrom(_, _)
\* .join('')
JoinFrom(parts, k) ==
    IF k > Len(parts) THEN "" ELSE parts[k] \o JoinFrom(parts, k + 1)

\* The mutant of renderParagraph: no early return for a blank paragraph.
renderParagraphNoBlankCheck(trimmed, exps) ==
    IF isSubheading(trimmed)
    THEN "<h3 class=\"article-subheading\">" \o highlightWord(trimmed, exps) \o "</h3>"
    ELSE "<p>" \o highlightWord(trimmed, exps) \o "</p>"

\* The callback of .map over the pieces, after const trimmed = p.trim().
renderParagraph(trimmed, exps) ==
    IF trimmed = "" THEN ""
    ELSE IF isSubheading(trimmed)
    THEN "<h3 class=\"article-subheading\">" \o highlightWord(trimmed, exps) \o "</h3>"
    ELSE "<p>" \o highlightWord(trimmed, exps) \o "</p>"

processedParagraphs(text, exps) ==
    LET pieces == SplitBlankLines(text)
    IN  JoinFrom([i \in DOMAIN pieces |-> renderParagraph(trim(pieces[i]), exps)], 1)

----------------------------------------------------------------------------
(* The inputs *)

\* The longest article text, in fragments of a vocabulary.
MaxFrags == 3

\* The longest list of explanations.
MaxTerms == 2

RECURSIVE Texts(_, _)
\* Every text of at most k fragments of F.
Texts(F, k) ==
    IF k = 0 THEN {""}
    ELSE LET shorter == Texts(F, k - 1)
         IN  shorter \cup {a \o b : a \in shorter, b \in F}

\* Every list of at most MaxTerms explanations of T, no explanation twice.
TermLists(T) ==
    {l \in UNION {[1..k -> T] : k \in 0..MaxTerms} :
        \A i, j \in DOMAIN l : l[i] = l[j] => i = j}

\* The words with letters beyond ASCII.
Fuer == "f" \o ue \o "r"

Dafuer == "da" \o Fuer

Schoen == "sch" \o oe \o "n"

Uebergang == ue \o "bergang"

TBahn ==
    [word |-> "Bahn", definition |-> "railway", example |-> "Die Bahn kommt.",
     difficulty |-> "beginner", partOfSpeech |-> "noun"]

TBahnhof ==
    [word |-> "Bahnhof", definition |-> "station", example |-> "",
     difficulty |-> "beginner", partOfSpeech |-> "noun"]

TBahnuebergang ==
    [word |-> "Bahn" \o Uebergang, definition |-> "level crossing", example |-> "",
     difficulty |-> "intermediate", partOfSpeech |-> "noun"]

\* partOfSpeech and example are missing from this record.
TIn ==
    [word |-> "in", definition |-> "inside", difficulty |-> "beginner"]

TInternational ==
    [word |-> "international", definition |-> "used in many countries",
     example |-> "", difficulty |-> "advanced", partOfSpeech |-> "adjective"]

\* partOfSpeech and example are empty in this record.
TKraft ==
    [word |-> "Kraft", definition |-> "force", example |-> "",
     difficulty |-> "intermediate", partOfSpeech |-> ""]

TInKraftTreten ==
    [word |-> "in Kraft treten", definition |-> "to take effect",
     example |-> "", difficulty |-> "advanced", partOfSpeech |-> "verb"]

TFundE ==
    [word |-> "F&E", definition |-> "R&D <\"lab's\">", example |-> "F&E > 0",
     difficulty |-> "advanced", partOfSpeech |-> "noun"]

TAmp ==
    [word |-> "amp", definition |-> "lamp", example |-> "",
     difficulty |-> "beginner", partOfSpeech |-> "noun"]

TSchon ==
    [word |-> "schon", definition |-> "already", example |-> "",
     difficulty |-> "beginner", partOfSpeech |-> "adverb"]

TFuer ==
    [word |-> Fuer, definition |-> "for", example |-> "",
     difficulty |-> "beginner", partOfSpeech |-> "preposition"]

\* Words with characters that have a meaning in a pattern.
TDot ==
    [word |-> "a.b", definition |-> "a to b", example |-> "",
     difficulty |-> "beginner", partOfSpeech |-> "phrase"]

TCpp ==
    [word |-> "c++", definition |-> "a language", example |-> "",
     difficulty |-> "advanced", partOfSpeech |-> "noun"]

\* Two expressions of equal length that overlap in "zum Teil von".
TZumTeil ==
    [word |-> "zum Teil", definition |-> "partly", example |-> "",
     difficulty |-> "intermediate", partOfSpeech |-> "phrase"]

TTeilVon ==
    [word |-> "Teil von", definition |-> "part of", example |-> "",
     difficulty |-> "beginner", partOfSpeech |-> "phrase"]

TNachUndNach ==
    [word |-> "nach und nach", definition |-> "little by little", example |-> "",
     difficulty |-> "intermediate", partOfSpeech |-> "adverb"]

TFive ==
    [word |-> "5", definition |-> "five", example |-> "",
     difficulty |-> "beginner", partOfSpeech |-> "numeral"]

\* The vocabularies: the fragments the article texts are made of, and the
\* explanations the term lists are drawn from.
Vocabularies ==
    { [frags |-> {"Bahn", "Bahnhof", Uebergang, " "},
        terms |-> {TBahn, TBahnhof, TBahnuebergang}],
      [frags |-> {"Die Bahn", "Bahn kommt.", "\n\n", " "}, terms |-> {TBahn}],
      [frags |-> {"international", "in", "news", " "}, terms |-> {TIn, TInternational}],
      [frags |-> {"in Kraft treten", "Kraft", " "}, terms |-> {TKraft, TInKraftTreten}],
      [frags |-> {"F&E", "amp", " "}, terms |-> {TFundE, TAmp}],
      [frags |-> {"schon", Schoen, "Schon", " "}, terms |-> {TSchon}],
      [frags |-> {Fuer, Dafuer, " "}, terms |-> {TFuer}],
      [frags |-> {"nach und nach", " und nach", "5"}, terms |-> {TNachUndNach, TFive}],
      [frags |-> {"a.b", "axb", "c++", " "}, terms |-> {TDot, TCpp}],
      [frags |-> {"zum Teil", "Teil von", " von"}, terms |-> {TZumTeil, TTeilVon}] }

----------------------------------------------------------------------------
(* The state machine *)

\* No piece is being classified by itself.
HeadIdle ==
    /\ hText = ""
    /\ hTrimmed = ""
    /\ hVerdict = "none"
    /\ hMarkup = ""
    /\ hpc = "idle"

Init ==
    /\ HeadIdle
    /\ ServiceIdle
    /\ AppIdle
    /\ QuizIdle
    /\ SiteIdle
    /\ \E v \in Vocabularies :
          /\ content \in Texts(v.frags, MaxFrags)
          /\ explanations \in TermLists(v.terms)
    /\ pc = "input"
    /\ sorted = <<>>
    /\ patterns = <<>>
    /\ paragraphs = <<>>
    /\ results = <<>>
    /\ processed = ""
    /\ again = <<>>
    /\ order = <<>>
    /\ permuted = <<>>

\* generateArticlePage, up to the markup of the article text.
GenerateArticlePage ==
    /\ pc = "input"
    /\ pc' = "page"
    /\ sorted' = sortedExplanations(explanations)
    /\ patterns' = [i \in DOMAIN sorted' |-> escapedWord(sorted'[i].word)]
    /\ paragraphs' = LET pieces == SplitBlankLines(content)
                     IN  [i \in DOMAIN pieces |-> trim(pieces[i])]
    /\ results' = [i \in DOMAIN paragraphs' |->
                      IF paragraphs'[i] = "" THEN ""
                      ELSE highlightWord(paragraphs'[i], explanations)]
    /\ processed' = processedParagraphs(content, explanations)
    /\ UNCHANGED <<content, explanations, again, order, permuted, headVars, serviceVars, appVars, quizVars, siteVars>>

\* highlightWord applied to its own output, with the same explanations.
HighlightAgain ==
    /\ pc = "page"
    /\ pc' = "again"
    /\ again' = [i \in DOMAIN results |-> highlightWord(results[i], explanations)]
    /\ UNCHANGED <<content, explanations, sorted, patterns, paragraphs, results,
                   processed, order, permuted, headVars, serviceVars, appVars, quizVars, siteVars>>

\* The orders of a list of n explanations.
Orders(n) == {f \in [1..n -> 1..n] : \A i, j \in 1..n : f[i] = f[j] => i = j}

\* highlightWord of the same pieces with the same explanations in another
\* order.
HighlightPermuted ==
    /\ pc = "page"
    /\ pc' = "permuted"
    /\ \E f \in Orders(Len(explanations)) :
          /\ order' = f
          /\ permuted' = [i \in DOMAIN paragraphs |->
                              IF paragraphs[i] = "" THEN ""
                              ELSE highlightWord(paragraphs[i],
                                       [k \in DOMAIN explanations |-> explanations[f[k]]])]
    /\ UNCHANGED <<content, explanations, sorted, patterns, paragraphs, results,
                   processed, again, headVars, serviceVars, appVars, quizVars, siteVars>>

Next == GenerateArticlePage \/ HighlightAgain \/ HighlightPermuted

Spec == Init /\ [][Next]_vars

----------------------------------------------------------------------------
(* The map callback of processedParagraphs on one piece *)

\* The most capitalized words, and the most other words, between the first
\* and the last word of a piece.
MaxCaps == 8

MaxLows == 4

RECURSIVE Repeat(_, _)
Repeat(s, n) == IF n <= 0 THEN "" ELSE s \o Repeat(s, n - 1)

\* The first word of a piece: capitalized or not, or led by a list marker.
FirstWords ==
    {"A", "Ab", "Abc", "Zbc", Ae \o "bc", Oe \o "bc", Ue \o "bc",
     "abc", ue \o "bc", "-Abc", "*Abc", Bullet \o "Abc"}

\* The end of a piece: nothing more, or a last word with or without the
\* punctuation that ends a sentence.
LastWords == {"", " Ab", " ab", " Ab.", " Ab!", " Ab?", " Ab;"}

\* The lengths a piece is stretched to by one long capitalized word: 0 for
\* none.
StretchLengths == {0, MaxHeadingLength - 1, MaxHeadingLength, MaxHeadingLength + 1}

\* The whitespace around a piece.
Margins == {"", " "}

\* The letters of one long word.
LongWord == "cccccccccccccccccccccccccccccccccccccccccccccccccccccccccccccccccccccccccccccccccccccccccccccccccccccccccccccccccccccccccccccccccc"

Fill(n) == SubSeq(LongWord, 1, n)

Stretched(text, len) ==
    IF len = 0 THEN text ELSE text \o " C" \o Fill(len - Len(text) - 2)

Pieces ==
    {mg \o Stretched(first \o Repeat(" Bb", caps) \o Repeat(" bb", lows) \o last, len) \o mg :
        first \in FirstWords, caps \in 0..MaxCaps, lows \in 0..MaxLows,
        last \in LastWords, len \in StretchLengths, mg \in Margins}

\* No article page is being generated.
PageIdle ==
    /\ content = ""
    /\ explanations = <<>>
    /\ pc = "idle"
    /\ sorted = <<>>
    /\ patterns = <<>>
    /\ paragraphs = <<>>
    /\ results = <<>>
    /\ processed = ""
    /\ again = <<>>
    /\ order = <<>>
    /\ permuted = <<>>

InitPiece ==
    /\ PageIdle
    /\ ServiceIdle
    /\ AppIdle
    /\ QuizIdle
    /\ SiteIdle
    /\ hText \in Pieces
    /\ hTrimmed = ""
    /\ hVerdict = "none"
    /\ hMarkup = ""
    /\ hpc = "piece"

\* The map callback on one piece, the article having no explanations.
RenderPiece ==
    /\ hpc = "piece"
    /\ hpc' = "rendered"
    /\ hTrimmed' = trim(hText)
    /\ hVerdict' = IF hTrimmed' = "" THEN "none"
                   ELSE IF isSubheading(hTrimmed') THEN "heading" ELSE "paragraph"
    /\ hMarkup' = renderParagraph(hTrimmed', <<>>)
    /\ UNCHANGED <<hText, pageVars, serviceVars, appVars, quizVars, siteVars>>

NextPiece == RenderPiece

SpecPiece == InitPiece /\ [][NextPiece]_vars

----------------------------------------------------------------------------
(* DWService.getLatestArticles *)

Digits == "0123456789"

IsDigit(c) == c \in Chars(Digits)

\* url.match(/\/a-(\d+)/): the digits after the leftmost "/a-" that a digit
\* follows, or the url itself when there is none.
extractArticleId(url) ==
    LET at == {i \in 1..Len(url) :
                  /\ i + 3 <= Len(url)
                  /\ SubSeq(url, i, i + 2) = "/a-"
                  /\ IsDigit(Char(url, i + 3))}
    IN  IF at = {} THEN url
        ELSE LET b == Min(at) + 3
                 e == Max({k \in b..Len(url) : \A n \in b..k : IsDigit(Char(url, n))})
             IN  SubSeq(url, b, e)

\* The test if (title && link) on the trimmed texts of an item.
HasTitleAndLink(item) == trim(item.title) # "" /\ trim(item.link) # ""

\* The NewsArticle pushed for an item; audioUrl, publishedAt, words and quiz
\* play no part here.
ItemArticle(item) ==
    [id |-> extractArticleId(trim(item.link)),
     title |-> trim(item.title),
     description |-> trim(item.description),
     url |-> trim(item.link),
     content |-> ""]

\* The mutant of getLatestArticles: the items without title or link are
\* dropped before the first n are taken.
getLatestArticlesRefilled(items, n) ==
    LET kept == SelectSeq(items, HasTitleAndLink)
        slice == SubSeq(kept, 1, Min({n, Len(kept)}))
    IN  [k \in DOMAIN slice |-> ItemArticle(slice[k])]

\* $('item').slice(0, limit).each(...): the articles of the first n items
\* that have a title and a link, n >= 0.
getLatestArticles(items, n) ==
    LET slice == SubSeq(items, 1, Min({n, Len(items)}))
        kept == SelectSeq(slice, HasTitleAndLink)
    IN  [k \in DOMAIN kept |-> ItemArticle(kept[k])]

\* The longest feed and the largest limit.
MaxItems == 3

MaxLimit == 3

ItemA ==
    [title |-> " Nachrichten vom Montag ", description |-> "Die Bahn kommt.",
     link |-> "https://www.dw.com/de/montag/a-101"]

ItemB ==
    [title |-> "Nachrichten vom Dienstag", description |-> "",
     link |-> " https://www.dw.com/de/dienstag/a-102\n"]

\* An item without a title, one without a link, and one whose link holds no
\* article number.
ItemNoTitle ==
    [title |-> "  ", description |-> "Ohne Titel",
     link |-> "https://www.dw.com/de/ohne/a-103"]

ItemNoLink ==
    [title |-> "Ohne Link", description |-> "", link |-> ""]

ItemNoNumber ==
    [title |-> "Thema", description |-> "", link |-> "https://www.dw.com/de/thema"]

FeedItems == {ItemA, ItemB, ItemNoTitle, ItemNoLink, ItemNoNumber}

Feeds(n) == UNION {[1..k -> FeedItems] : k \in 0..n}

InitFeed ==
    /\ PageIdle
    /\ HeadIdle
    /\ feed \in Feeds(MaxItems)
    /\ feedOk \in BOOLEAN
    /\ limit \in 0..MaxLimit
    /\ latest = <<>>
    /\ fpc = "call"
    /\ ContentIdle
    /\ AppIdle
    /\ QuizIdle
    /\ SiteIdle

\* getLatestArticles, the request answered: lines 32-63.
GetLatestArticles ==
    /\ fpc = "call"
    /\ feedOk
    /\ fpc' = "returned"
    /\ latest' = getLatestArticles(feed, limit)
    /\ UNCHANGED <<feed, feedOk, limit, pageVars, headVars, contentVars, appVars, quizVars, siteVars>>

\* getLatestArticles, the request failed: the catch of lines 64-67 throws.
GetLatestArticlesFails ==
    /\ fpc = "call"
    /\ ~feedOk
    /\ fpc' = "thrown"
    /\ UNCHANGED <<feed, feedOk, limit, latest, pageVars, headVars, contentVars, appVars, quizVars, siteVars>>

NextFeed == GetLatestArticles \/ GetLatestArticlesFails

SpecFeed == InitFeed /\ [][NextFeed]_vars

----------------------------------------------------------------------------
(* DWService.getArticleContent *)

\* The whitespace before the number is skipped.
trimStart(s) ==
    LET kept == {i \in 1..Len(s) : Char(s, i) \notin WhiteSpace}
    IN  IF kept = {} THEN "" ELSE SubSeq(s, Min(kept), Len(s))

HexDigits == "0123456789abcdef"

\* The value of the digit c in the base, or -1 when c is no digit of it.
DigitValue(c, base) ==
    LET at == {i \in 1..base : Char(HexDigits, i) = Fold(c)}
    IN  IF Len(c) = 1 /\ at # {} THEN Min(at) - 1 ELSE -1

RECURSIVE ReadDigits(_, _, _, _)
\* The number the longest run of digits at the head of s stands for, after
\* the digits read so far; seen says whether a digit has been read.
ReadDigits(s, base, acc, seen) ==
    IF s = "" \/ DigitValue(Char(s, 1), base) < 0
    THEN [nan |-> ~seen, value |-> acc]
    ELSE ReadDigits(SubSeq(s, 2, Len(s)), base,
                    acc * base + DigitValue(Char(s, 1), base), TRUE)

\* parseInt(string) with no radix: a sign, then the digits after 0x in base
\* 16 or else the digits in base 10; NaN when there is no digit.
parseInt(string) ==
    LET t == trimStart(string)
        signed == t # "" /\ Char(t, 1) \in {"+", "-"}
        u == IF signed THEN SubSeq(t, 2, Len(t)) ELSE t
        hex == Len(u) >= 2 /\ Char(u, 1) = "0" /\ Char(u, 2) \in {"x", "X"}
        n == IF hex THEN ReadDigits(SubSeq(u, 3, Len(u)), 16, 0, FALSE)
             ELSE ReadDigits(u, 10, 0, FALSE)
    IN  IF n.nan THEN NaN
        ELSE [nan |-> FALSE,
              value |-> IF signed /\ Char(t, 1) = "-" THEN 0 - n.value ELSE n.value]

\* fetchFromGraphQL: the text of the answer, '' when the request fails or the
\* answer has no text.
fetchFromGraphQL(reply) ==
    IF reply.kind = "text" /\ reply.text # "" THEN reply.text ELSE ""

\* The position i of the document lies in a tag: the last "<" up to i has no
\* ">" between itself and i, and a ">" follows that closes it.
InTag(html, i) ==
    LET opens == {j \in 1..i : Char(html, j) = "<"}
    IN  /\ opens # {}
        /\ \A k \in Max(opens)..(i - 1) : Char(html, k) # ">"
        /\ \E k \in i..Len(html) : Char(html, k) = ">"

RECURSIVE TextBetween(_, _, _)
\* The characters outside the tags among the positions lo..hi.
TextBetween(html, lo, hi) ==
    IF lo > hi THEN ""
    ELSE IF lo = hi THEN (IF InTag(html, lo) THEN "" ELSE Char(html, lo))
    ELSE TextBetween(html, lo, (lo + hi) \div 2)
            \o TextBetween(html, (lo + hi) \div 2 + 1, hi)

\* The text of a document: what stands outside its tags. The documents here
\* have no script or style element and no character reference.
TextOf(html) == TextBetween(html, 1, Len(html))

RECURSIVE CollapseBetween(_, _, _)
\* The positions lo..hi with every run of whitespace as one space.
CollapseBetween(s, lo, hi) ==
    IF lo > hi THEN ""
    ELSE IF lo = hi
         THEN (IF Char(s, lo) \notin WhiteSpace THEN Char(s, lo)
               ELSE IF lo > 1 /\ Char(s, lo - 1) \in WhiteSpace THEN "" ELSE " ")
    ELSE CollapseBetween(s, lo, (lo + hi) \div 2)
            \o CollapseBetween(s, (lo + hi) \div 2 + 1, hi)

\* .replace(/\s+/g, ' ')
CollapseSpace(s) == CollapseBetween(s, 1, Len(s))

\* cleanHtmlContent: $('body').text(), or when that is empty the text of the
\* root with its whitespace collapsed and trimmed.
cleanHtmlContent(htmlContent) ==
    IF TextOf(htmlContent) # "" THEN TextOf(htmlContent)
    ELSE trim(CollapseSpace(TextOf(htmlContent)))

\* generateFallbackContent
generateFallbackContent(article) ==
    article.title \o "\n\n" \o article.description \o "\n\n"
        \o "Dies ist ein Artikel aus den \"Langsam gesprochene Nachrichten\" von Deutsche Welle. \n"
        \o "Der vollst" \o ae \o "ndige Text konnte nicht automatisch abgerufen werden, "
        \o "aber Sie k" \o oe \o "nnen den Artikel unter folgendem Link lesen: "
        \o article.url \o "\n\n"
        \o "Nutzen Sie die Audio-Datei, um Ihr H" \o oe \o "rverst" \o ae
        \o "ndnis zu verbessern."

MinContentLength == 100

\* The mutant of IsFullText: a text of exactly 100 characters is taken.
IsFullTextFrom100(text) == text # "" /\ Len(text) >= MinContentLength

\* content && content.length > 100
IsFullText(text) == text # "" /\ Len(text) > MinContentLength

\* The lengths of the texts the endpoint answers with.
ReplyLengths == {7, 12, MinContentLength - 1, MinContentLength, MinContentLength + 1, 130}

Replies ==
    {[kind |-> "error", text |-> ""], [kind |-> "noText", text |-> ""],
     [kind |-> "text", text |-> ""],
     [kind |-> "text", text |-> Repeat("<br/>", 21)]}
        \cup {[kind |-> "text", text |-> "<p>" \o Fill(n - 7) \o "</p>"] : n \in ReplyLengths}

\* An item whose link is a number and a word.
ItemNumberLink ==
    [title |-> "Live", description |-> "Der Tag", link |-> "102-live"]

ContentArticles ==
    {ItemArticle(i) : i \in {ItemA, ItemB, ItemNoNumber, ItemNumberLink}}

InitContent ==
    /\ PageIdle
    /\ HeadIdle
    /\ FeedIdle
    /\ AppIdle
    /\ QuizIdle
    /\ SiteIdle
    /\ cArticle \in ContentArticles
    /\ cReply \in Replies
    /\ cId = NaN
    /\ cFetched = ""
    /\ cResult = ""
    /\ cpc = "parse"

\* Lines 87-91: the id does not parse and the placeholder is returned, or the
\* call goes on.
ParseArticleId ==
    /\ cpc = "parse"
    /\ cId' = parseInt(cArticle.id)
    /\ IF cId'.nan
       THEN cpc' = "returned" /\ cResult' = generateFallbackContent(cArticle)
       ELSE cpc' = "fetch" /\ cResult' = cResult
    /\ UNCHANGED <<cArticle, cReply, cFetched, pageVars, headVars, feedVars, appVars, quizVars, siteVars>>

\* Line 94: await this.fetchFromGraphQL(articleId).
FetchFromGraphQL ==
    /\ cpc = "fetch"
    /\ cpc' = "decide"
    /\ cFetched' = fetchFromGraphQL(cReply)
    /\ UNCHANGED <<cArticle, cReply, cId, cResult, pageVars, headVars, feedVars, appVars, quizVars, siteVars>>

\* Lines 95-101: the cleaned text of a full text, the placeholder otherwise.
ReturnContent ==
    /\ cpc = "decide"
    /\ cpc' = "returned"
    /\ cResult' = IF IsFullText(cFetched) THEN cleanHtmlContent(cFetched)
                  ELSE generateFallbackContent(cArticle)
    /\ UNCHANGED <<cArticle, cReply, cId, cFetched, pageVars, headVars, feedVars, appVars, quizVars, siteVars>>

NextContent == ParseArticleId \/ FetchFromGraphQL \/ ReturnContent

SpecContent == InitContent /\ [][NextContent]_vars

----------------------------------------------------------------------------
(* DWLearningApp.run *)

\* getArticleContent as one function of the article and of the answer of the
\* endpoint.
getArticleContent(article, reply) ==
    IF parseInt(article.id).nan THEN generateFallbackContent(article)
    ELSE IF IsFullText(fetchFromGraphQL(reply))
         THEN cleanHtmlContent(fetchFromGraphQL(reply))
         ELSE generateFallbackContent(article)

FeedLimit == 5

DelayMs == 2000

\* The days of the data files, in the order readdir lists their files.
Days == <<"2025-06-01", "2025-06-02">>

NoFile == [kind |-> "none", data |-> <<>>]

JsonFile(data) == [kind |-> "json", data |-> data]

\* A file that JSON.parse rejects.
BrokenFile == [kind |-> "broken", data |-> <<>>]

\* The elements of the sequence at the indices of keep, in their order.
Filtered(seq, keep) ==
    [k \in 1..Cardinality(keep) |->
        seq[CHOOSE i \in keep : Cardinality({j \in keep : j <= i}) = k]]

RECURSIVE allData(_, _)
\* allData after the first d files: a file that is missing or does not parse
\* adds nothing.
allData(fs, d) ==
    IF d = 0 THEN <<>>
    ELSE allData(fs, d - 1) \o (IF fs[d].kind = "json" THEN fs[d].data ELSE <<>>)

\* The first record of every article id.
uniqueData(all) ==
    Filtered(all, {i \in DOMAIN all :
                      \A j \in 1..(i - 1) : all[j].article.id # all[i].article.id})

loadExistingData(fs) == uniqueData(allData(fs, Len(fs)))

\* The mutant of newArticlesOf: nothing is filtered out.
newArticlesUnfiltered(articles, existing) == articles

\* Lines 182-183: the articles of the feed whose id no loaded record has.
newArticlesOf(articles, existing) ==
    SelectSeq(articles,
              LAMBDA a : \A i \in DOMAIN existing : existing[i].article.id # a.id)

\* What the model service does with a prompt: the request fails, or the
\* answer is no JSON, a JSON array, or the JSON value null.
AiReplies == {"error", "garbage", "array", "null"}

\* parseWordExplanations and parseQuizQuestions: the parsed value, the empty
\* array when JSON.parse throws. An array answer has n elements.
parseReply(reply, n) ==
    IF reply = "array" THEN Arr(n) ELSE IF reply = "null" THEN Null ELSE Arr(0)

\* The mutant of explainDifficultWords: a failed request gives no array.
explainDifficultWordsNullOnError(reply) ==
    IF reply = "error" THEN Null ELSE parseReply(reply, 2)

\* explainDifficultWords: the empty array when the request fails.
explainDifficultWords(reply) ==
    IF reply = "error" THEN Arr(0) ELSE parseReply(reply, 2)

\* generateQuiz, called with an array of explanations.
generateQuiz(reply) ==
    IF reply = "error" THEN Arr(0) ELSE parseReply(reply, 1)

ProcessedArticle(article, words, quizzes, day) ==
    [article |-> article, explanations |-> words, quizzes |-> quizzes,
     processedDate |-> day]

\* generateIndexPage reads explanations.length and quizzes.length of every
\* article, generateArticlePage maps over both: a value that is no array
\* makes generateWebsite throw before it writes a page.
Renderable(data) ==
    \A i \in DOMAIN data : data[i].explanations.isArray /\ data[i].quizzes.isArray

Call(op, id) == [op |-> op, id |-> id, ms |-> 0]

DelayCall(id) == [op |-> "delay", id |-> id, ms |-> DelayMs]

\* The mutant of allProcessedArticles: the loaded records are left out.
allProcessedOnlyNew(existing, new) == new

\* Line 235.
allProcessedArticles(existing, new) == existing \o new

\* The endpoint has the full text of the article 101 and fails for the others.
FullReply == [kind |-> "text", text |-> "<p>" \o Fill(MinContentLength - 6) \o "</p>"]

Endpoint(id) == IF id = "101" THEN FullReply ELSE [kind |-> "error", text |-> ""]

\* The item of the article 101 under a later title.
ItemAgain ==
    [title |-> "Nachrichten vom Montag (neu)", description |-> "Die Bahn kommt.",
     link |-> "https://www.dw.com/de/montag-neu/a-101"]

MaxRunItems == 2

RunItems == {ItemA, ItemAgain, ItemB, ItemNoNumber}

RunFeeds == UNION {[1..k -> RunItems] : k \in 0..MaxRunItems}

\* Records as earlier runs stored them.
StoredA ==
    ProcessedArticle([ItemArticle(ItemA) EXCEPT !.content = cleanHtmlContent(FullReply.text)],
                     Arr(2), Arr(1), Days[1])

StoredB ==
    ProcessedArticle([ItemArticle(ItemB) EXCEPT
                         !.content = generateFallbackContent(ItemArticle(ItemB))],
                     Arr(0), Arr(0), Days[1])

Disks ==
    {<<NoFile, NoFile>>,
     <<JsonFile(<<StoredA>>), NoFile>>,
     <<JsonFile(<<StoredA, StoredB>>), NoFile>>,
     <<JsonFile(<<StoredA>>), JsonFile(<<StoredA, StoredB>>)>>,
     <<BrokenFile, JsonFile(<<StoredB>>)>>}

InitRun ==
    /\ PageIdle
    /\ HeadIdle
    /\ ServiceIdle
    /\ QuizIdle
    /\ SiteIdle
    /\ files \in Disks
    /\ today \in DOMAIN Days
    /\ \A d \in DOMAIN Days : d > today => files[d] = NoFile
    /\ rss \in RunFeeds
    /\ rssOk \in BOOLEAN
    /\ existingData = <<>>
    /\ newArticles = <<>>
    /\ idx = 0
    /\ explained = Null
    /\ newProcessed = <<>>
    /\ calls = <<>>
    /\ caught = {}
    /\ lastReply = ""
    /\ runNo = 1
    /\ filesBefore = files
    /\ everLoaded = {}
    /\ website = NoSite
    /\ exited = "running"
    /\ rpc = "load"

\* Line 167.
LoadExistingData ==
    /\ rpc = "load"
    /\ rpc' = "feed"
    /\ existingData' = loadExistingData(files)
    /\ everLoaded' = everLoaded \cup {existingData'[i] : i \in DOMAIN existingData'}
    /\ UNCHANGED <<lastReply, runNo, filesBefore, caught, files, today, rss, rssOk, newArticles, idx, explained, newProcessed,
                   calls, website, exited, pageVars, headVars, serviceVars, quizVars, siteVars>>

\* Line 172, getLatestArticles throwing: the catch of lines 251-254.
GetLatestThrows ==
    /\ rpc = "feed"
    /\ ~rssOk
    /\ rpc' = "done"
    /\ exited' = "exit1"
    /\ UNCHANGED <<lastReply, runNo, filesBefore, everLoaded, caught, files, today, rss, rssOk, existingData, newArticles, idx, explained,
                   newProcessed, calls, website, pageVars, headVars, serviceVars, quizVars, siteVars>>

\* The mutant of GetLatestNone: the site is generated from the loaded data.
GetLatestNoneRegenerates ==
    /\ rpc = "feed"
    /\ rssOk
    /\ getLatestArticles(rss, FeedLimit) = <<>>
    /\ rpc' = "done"
    /\ exited' = "returned"
    /\ website' = [generated |-> TRUE, data |-> existingData]
    /\ UNCHANGED <<lastReply, runNo, filesBefore, everLoaded, caught, files, today, rss,
                   rssOk, existingData, newArticles, idx, explained, newProcessed,
                   calls, pageVars, headVars, serviceVars, quizVars, siteVars>>

\* Lines 172-177: no article in the feed.
GetLatestNone ==
    /\ rpc = "feed"
    /\ rssOk
    /\ getLatestArticles(rss, FeedLimit) = <<>>
    /\ rpc' = "done"
    /\ exited' = "returned"
    /\ UNCHANGED <<lastReply, runNo, filesBefore, everLoaded, caught, files, today, rss, rssOk, existingData, newArticles, idx, explained,
                   newProcessed, calls, website, pageVars, headVars, serviceVars, quizVars, siteVars>>

\* Lines 172-199: the articles of the feed, the new ones among them, and the
\* way the run takes.
GetLatest ==
    /\ rpc = "feed"
    /\ rssOk
    /\ getLatestArticles(rss, FeedLimit) # <<>>
    /\ newArticles' = newArticlesOf(getLatestArticles(rss, FeedLimit), existingData)
    /\ IF newArticles' = <<>>
       THEN rpc' = "regenerate" /\ idx' = idx
       ELSE rpc' = "content" /\ idx' = 1
    /\ UNCHANGED <<lastReply, runNo, filesBefore, everLoaded, caught, files, today, rss, rssOk, existingData, explained, newProcessed,
                   calls, website, exited, pageVars, headVars, serviceVars, quizVars, siteVars>>

\* Lines 187-193: the site from the loaded data.
RegenerateExisting ==
    /\ rpc = "regenerate"
    /\ rpc' = "done"
    /\ IF Renderable(existingData)
       THEN /\ website' = [generated |-> TRUE, data |-> existingData]
            /\ exited' = "returned"
       ELSE /\ website' = website
            /\ exited' = "exit1"
    /\ UNCHANGED <<lastReply, runNo, filesBefore, everLoaded, caught, files, today, rss, rssOk, existingData, newArticles, idx, explained,
                   newProcessed, calls, pageVars, headVars, serviceVars, quizVars, siteVars>>

\* Line 205.
FetchContent ==
    /\ rpc = "content"
    /\ rpc' = "explain"
    /\ calls' = Append(calls, Call("content", newArticles[idx].id))
    /\ newArticles' =
          [newArticles EXCEPT ![idx].content =
              getArticleContent(newArticles[idx], Endpoint(newArticles[idx].id))]
    /\ UNCHANGED <<lastReply, runNo, filesBefore, everLoaded, caught, files, today, rss, rssOk, existingData, idx, explained, newProcessed,
                   website, exited, pageVars, headVars, serviceVars, quizVars, siteVars>>

\* Lines 208-212 up to the request of generateQuiz: explanations that are no
\* array make generateQuiz throw at explanations.map, and the catch of lines
\* 228-231 goes on with the next article.
ExplainWords ==
    /\ rpc = "explain"
    /\ \E reply \in AiReplies :
          /\ explained' = explainDifficultWords(reply)
          /\ lastReply' = reply
    /\ calls' = Append(calls, Call("explain", newArticles[idx].id))
    /\ IF explained'.isArray
       THEN rpc' = "quiz" /\ idx' = idx /\ caught' = caught
       ELSE /\ idx' = idx + 1
            /\ caught' = caught \cup {idx}
            /\ rpc' = IF idx < Len(newArticles) THEN "content" ELSE "save"
    /\ UNCHANGED <<runNo, filesBefore, everLoaded, files, today, rss, rssOk, existingData, newArticles, newProcessed,
                   website, exited, pageVars, headVars, serviceVars, quizVars, siteVars>>

\* Lines 212-231 from the request of generateQuiz on: the record is pushed,
\* then line 221 reads quizzes.length, which throws when quizzes is null.
GenerateQuiz ==
    /\ rpc = "quiz"
    /\ \E reply \in AiReplies :
          LET quizzes == generateQuiz(reply)
          IN  /\ lastReply' = reply
              /\ calls' = Append(calls, Call("quiz", newArticles[idx].id))
              /\ newProcessed' =
                    Append(newProcessed,
                           ProcessedArticle(newArticles[idx], explained, quizzes, Days[today]))
              /\ caught' = IF quizzes.isArray THEN caught ELSE caught \cup {idx}
              /\ IF quizzes.isArray /\ idx < Len(newArticles)
                 THEN rpc' = "delay" /\ idx' = idx
                 ELSE /\ idx' = idx + 1
                      /\ rpc' = IF idx < Len(newArticles) THEN "content" ELSE "save"
    /\ UNCHANGED <<runNo, filesBefore, everLoaded, files, today, rss, rssOk, existingData, newArticles, explained,
                   website, exited, pageVars, headVars, serviceVars, quizVars, siteVars>>

\* Line 226.
Delay ==
    /\ rpc = "delay"
    /\ rpc' = "content"
    /\ idx' = idx + 1
    /\ calls' = Append(calls, DelayCall(newArticles[idx].id))
    /\ UNCHANGED <<lastReply, runNo, filesBefore, everLoaded, caught, files, today, rss, rssOk, existingData, newArticles, explained,
                   newProcessed, website, exited, pageVars, headVars, serviceVars, quizVars, siteVars>>

\* Lines 235-238: the file of the day is written anew.
SaveProcessedData ==
    /\ rpc = "save"
    /\ rpc' = "website"
    /\ files' = [files EXCEPT ![today] = JsonFile(allProcessedArticles(existingData, newProcessed))]
    /\ UNCHANGED <<lastReply, runNo, filesBefore, everLoaded, caught, today, rss, rssOk, existingData, newArticles, idx, explained,
                   newProcessed, calls, website, exited, pageVars, headVars, serviceVars, quizVars, siteVars>>

\* Lines 242-254.
GenerateWebsite ==
    /\ rpc = "website"
    /\ rpc' = "done"
    /\ IF Renderable(allProcessedArticles(existingData, newProcessed))
       THEN /\ website' = [generated |-> TRUE,
                           data |-> allProcessedArticles(existingData, newProcessed)]
            /\ exited' = "returned"
       ELSE /\ website' = website
            /\ exited' = "exit1"
    /\ UNCHANGED <<lastReply, runNo, filesBefore, everLoaded, caught, files, today, rss, rssOk, existingData, newArticles, idx, explained,
                   newProcessed, calls, pageVars, headVars, serviceVars, quizVars, siteVars>>

NextRun ==
    \/ LoadExistingData
    \/ GetLatestThrows
    \/ GetLatestNone
    \/ GetLatest
    \/ RegenerateExisting
    \/ FetchContent
    \/ ExplainWords
    \/ GenerateQuiz
    \/ Delay
    \/ SaveProcessedData
    \/ GenerateWebsite

SpecRun == InitRun /\ [][NextRun]_vars

----------------------------------------------------------------------------
(* DWLearningApp.run, started again and again *)

MaxRuns == 2

\* The feeds of the runs: none, one or two articles, of which the one or the
\* other is listed again at a later run.
RunsFeeds == {<<>>, <<ItemA>>, <<ItemA, ItemB>>, <<ItemB, ItemNoNumber>>}

\* The first run finds no ./data.
InitRuns ==
    /\ PageIdle
    /\ HeadIdle
    /\ ServiceIdle
    /\ QuizIdle
    /\ SiteIdle
    /\ files = [d \in DOMAIN Days |-> NoFile]
    /\ today \in DOMAIN Days
    /\ rss \in RunsFeeds
    /\ rssOk \in BOOLEAN
    /\ existingData = <<>>
    /\ newArticles = <<>>
    /\ idx = 0
    /\ explained = Null
    /\ newProcessed = <<>>
    /\ calls = <<>>
    /\ caught = {}
    /\ lastReply = ""
    /\ runNo = 1
    /\ filesBefore = files
    /\ everLoaded = {}
    /\ website = NoSite
    /\ exited = "running"
    /\ rpc = "load"

\* The program is started again, on the same day or on the next one, with
\* ./data and ./public as the runs before have left them.
StartRun ==
    /\ rpc = "done"
    /\ runNo < MaxRuns
    /\ runNo' = runNo + 1
    /\ today' \in {d \in DOMAIN Days : d = today \/ d = today + 1}
    /\ rss' \in RunsFeeds
    /\ rssOk' \in BOOLEAN
    /\ filesBefore' = files
    /\ existingData' = <<>>
    /\ newArticles' = <<>>
    /\ idx' = 0
    /\ explained' = Null
    /\ newProcessed' = <<>>
    /\ calls' = <<>>
    /\ caught' = {}
    /\ lastReply' = ""
    /\ exited' = "running"
    /\ rpc' = "load"
    /\ UNCHANGED <<files, everLoaded, website, pageVars, headVars, serviceVars, quizVars, siteVars>>

NextRuns == NextRun \/ StartRun

SpecRuns == InitRuns /\ [][NextRuns]_vars

----------------------------------------------------------------------------
(* checkAnswers of the generated quiz.js, on one article page *)

MaxQuestions == 5

\* The values of the radio inputs of a question, value="${optIndex}".
OptionValues == {"0", "1"}

CorrectAnswers == 0..1

\* Math.round((correct / total) * 100): NaN for 0 / 0, else the nearest
\* integer, a half going up. For the totals here the quotient is never
\* within rounding error of a half.
percentageOf(correct, total) ==
    IF total = 0 THEN NaN
    ELSE [nan |-> FALSE, value |-> (200 * correct + total) \div (2 * total)]

\* The mutant of resultClassOf: 60 percent is still poor.
resultClassOf60Poor(percentage) ==
    IF ~percentage.nan /\ percentage.value <= 60 THEN "poor"
    ELSE IF ~percentage.nan /\ percentage.value < 80 THEN "okay"
    ELSE "good"

\* resultClass: a comparison with NaN is false.
resultClassOf(percentage) ==
    IF ~percentage.nan /\ percentage.value < 60 THEN "poor"
    ELSE IF ~percentage.nan /\ percentage.value < 80 THEN "okay"
    ELSE "good"

\* parseInt(selectedAnswer.value) === correctAnswer
isCorrect(value, correctAnswer) ==
    ~parseInt(value).nan /\ parseInt(value).value = correctAnswer

\* querySelector('input[name="q' + index + '"]:checked'): the checked input
\* of the question, none when it is unanswered.
Answered(i) == selected[i] # {}

selectedAnswer(i) == CHOOSE v \in selected[i] : TRUE

\* The pages: the correct answers alternate from question to question, or
\* the second option is the correct one throughout.
QuizPages ==
    UNION {{[i \in 1..n |-> i % 2], [i \in 1..n |-> 1]} : n \in 0..MaxQuestions}

InitQuiz ==
    /\ PageIdle
    /\ HeadIdle
    /\ ServiceIdle
    /\ AppIdle
    /\ SiteIdle
    /\ quizData \in QuizPages
    /\ selected = [i \in DOMAIN quizData |-> {}]
    /\ feedbackShown = [i \in DOMAIN quizData |-> FALSE]
    /\ feedbackWrong = [i \in DOMAIN quizData |-> FALSE]
    /\ borderColor = [i \in DOMAIN quizData |-> ""]
    /\ quizResults = NoResults
    /\ checkDisabled = FALSE

\* The reader checks an option of a question: the radio inputs stay enabled
\* after the quiz is scored.
SelectOption ==
    /\ \E i \in DOMAIN quizData, v \in OptionValues :
          /\ selected[i] # {v}
          /\ selected' = [selected EXCEPT ![i] = {v}]
    /\ UNCHANGED <<quizData, feedbackShown, feedbackWrong, borderColor, quizResults,
                   checkDisabled, pageVars, headVars, serviceVars, appVars, siteVars>>

\* The reader clicks the button, which a disabled button does not pass on.
checkAnswers ==
    /\ ~checkDisabled
    /\ LET right == {i \in DOMAIN quizData :
                        Answered(i) /\ isCorrect(selectedAnswer(i), quizData[i])}
           correct == Cardinality(right)
           total == Len(quizData)
           percentage == percentageOf(correct, total)
       IN  /\ feedbackShown' = [i \in DOMAIN quizData |-> Answered(i) \/ feedbackShown[i]]
           /\ feedbackWrong' =
                 [i \in DOMAIN quizData |->
                     IF ~Answered(i) THEN feedbackWrong[i] ELSE i \notin right]
           /\ borderColor' =
                 [i \in DOMAIN quizData |->
                     IF ~Answered(i) THEN "#ff9800"
                     ELSE IF i \in right THEN "#4caf50" ELSE "#f44336"]
           /\ quizResults' = [shown |-> TRUE, class |-> resultClassOf(percentage),
                              correct |-> correct, total |-> total,
                              percentage |-> percentage]
    /\ checkDisabled' = TRUE
    /\ UNCHANGED <<quizData, selected, pageVars, headVars, serviceVars, appVars, siteVars>>

NextQuiz == SelectOption \/ checkAnswers

SpecQuiz == InitQuiz /\ [][NextQuiz]_vars

----------------------------------------------------------------------------
(* WebsiteGenerator.generateWebsite: the files it writes *)

\* [a-z0-9]: the digits that stand for capital umlauts are left out, and the
\* titles here hold none of them as digits.
SlugChars == Chars("abcdefghijklmnopqrstuvwxyz0123589")

RECURSIVE Dashed(_, _)
\* .toLowerCase().replace(/[^a-z0-9]+/g, '-') from index k on.
Dashed(text, k) ==
    IF k > Len(text) THEN ""
    ELSE IF Fold(Char(text, k)) \in SlugChars
         THEN Fold(Char(text, k)) \o Dashed(text, k + 1)
         ELSE IF k > 1 /\ Fold(Char(text, k - 1)) \notin SlugChars
              THEN Dashed(text, k + 1)
              ELSE "-" \o Dashed(text, k + 1)

\* .replace(/(^-|-$)/g, ''): a dash at the start and, if one is left, a dash
\* at the end.
StripDashes(t) ==
    LET u == IF t # "" /\ Char(t, 1) = "-" THEN SubSeq(t, 2, Len(t)) ELSE t
    IN  IF u # "" /\ Char(u, Len(u)) = "-" THEN SubSeq(u, 1, Len(u) - 1) ELSE u

slugify(text) == StripDashes(Dashed(text, 1))

\* A processed article as far as the files of the site go: id, title and
\* the day of publication.
SiteArticle(id, title, day) ==
    ProcessedArticle([id |-> id, title |-> title, description |-> "", url |-> "",
                      content |-> "", publishedAt |-> day],
                     Arr(0), Arr(0), Days[1])

\* Two articles of two Mondays under one title, one whose title differs from
\* theirs in case and punctuation, and three with titles of their own.
SitePool ==
    {SiteArticle("101", "Nachrichten vom Montag", 1),
     SiteArticle("102", "Nachrichten vom Montag", 2),
     SiteArticle("103", "Nachrichten: vom MONTAG!", 2),
     SiteArticle("105", "Nachrichten vom Dienstag", 1),
     SiteArticle("108", Ue \o "bung macht den Meister", 3),
     SiteArticle("109", "Thema der Woche", 3)}

MaxSiteArticles == 2

\* The lists of articles with pairwise different ids.
SiteLists ==
    {l \in UNION {[1..n -> SitePool] : n \in 0..MaxSiteArticles} :
        \A i, j \in DOMAIN l : i # j => l[i].article.id # l[j].article.id}

\* [...articles].sort by publishedAt, latest first; the sort is stable.
sortedArticles(articles) ==
    [k \in DOMAIN articles |->
        articles[CHOOSE i \in DOMAIN articles :
                    Cardinality({j \in DOMAIN articles :
                        \/ articles[j].article.publishedAt > articles[i].article.publishedAt
                        \/ /\ articles[j].article.publishedAt = articles[i].article.publishedAt
                           /\ j <= i}) = k]]

\* The link of an article card of the index page.
ArticleLink(a) ==
    [href |-> "articles/" \o slugify(a.article.title) \o ".html",
     title |-> a.article.title, id |-> a.article.id]

\* The file of an article page: its name and the article it shows.
ArticleFile(a) ==
    [file |-> slugify(a.article.title) \o ".html", title |-> a.article.title,
     id |-> a.article.id]

\* fs.writeFile: a file of the same name is replaced.
WriteFile(dir, f) == {g \in dir : g.file # f.file} \cup {f}

InitSite ==
    /\ PageIdle
    /\ HeadIdle
    /\ ServiceIdle
    /\ AppIdle
    /\ QuizIdle
    /\ siteArticles \in SiteLists
    /\ indexLinks = <<>>
    /\ articleFiles = {}
    /\ assets = {}
    /\ sidx = 0
    /\ spc = "index"

\* Lines 22-29: the directories and index.html.
GenerateIndexPage ==
    /\ spc = "index"
    /\ indexLinks' = [k \in DOMAIN siteArticles |->
                         ArticleLink(sortedArticles(siteArticles)[k])]
    /\ assets' = assets \cup {"index.html"}
    /\ sidx' = 1
    /\ spc' = IF siteArticles = <<>> THEN "assets" ELSE "pages"
    /\ UNCHANGED <<siteArticles, articleFiles, pageVars, headVars, serviceVars, appVars,
                   quizVars>>

\* Lines 32-34: the page of the next article of the list.
WriteArticlePage ==
    /\ spc = "pages"
    /\ articleFiles' = WriteFile(articleFiles, ArticleFile(siteArticles[sidx]))
    /\ sidx' = sidx + 1
    /\ spc' = IF sidx < Len(siteArticles) THEN "pages" ELSE "assets"
    /\ UNCHANGED <<siteArticles, indexLinks, assets, pageVars, headVars, serviceVars,
                   appVars, quizVars>>

\* Lines 37-40: the stylesheet and the script.
GenerateAssets ==
    /\ spc = "assets"
    /\ assets' = assets \cup {"css/style.css", "js/quiz.js"}
    /\ spc' = "done"
    /\ UNCHANGED <<siteArticles, indexLinks, articleFiles, sidx, pageVars, headVars,
                   serviceVars, appVars, quizVars>>

NextSite == GenerateIndexPage \/ WriteArticlePage \/ GenerateAssets

SpecSite == InitSite /\ [][NextSite]_vars

----------------------------------------------------------------------------
(* Reading the markup of a result *)

Positions(s, sub) ==
    {i \in 1..(Len(s) - Len(sub) + 1) : SubSeq(s, i, i + Len(sub) - 1) = sub}

Contains(s, sub) == Positions(s, sub) # {}

Count(s, sub) == Cardinality(Positions(s, sub))

SpanOpen == "<span class=\"explained-word "

SpanClose == "</span></span>"

TermOpen == "<span class=\"ew-term\">"

\* The character before index j of r, and the one at index j, is no letter
\* (or there is none).
NoLetterBefore(r, j) == j = 1 \/ Char(r, j - 1) \notin LetterSet

NoLetterAt(r, j) == j > Len(r) \/ Char(r, j) \notin LetterSet

----------------------------------------------------------------------------
(* C1 *)

\* C1: every annotation written by highlightWord stands where a whole word
\* stood: the character before the annotation and the character after it, if
\* any, are not letters, umlauts and sharp s counting as letters. With the
\* term "Bahn" the text "Bahnhof" stays as it is, and with the term Fuer the
\* text Dafuer does.
WordBoundaryCorrect ==
    /\ \A i \in DOMAIN results :
          /\ \A j \in Positions(results[i], SpanOpen) : NoLetterBefore(results[i], j)
          /\ \A j \in Positions(results[i], SpanClose) :
                NoLetterAt(results[i], j + Len(SpanClose))
    /\ (pc # "input" /\ content = "Bahnhof Bahn" /\ explanations = <<TBahn>>)
          => results = <<"Bahnhof " \o tooltip(TBahn, "Bahn")>>
    /\ (pc # "input" /\ content = Dafuer \o " " \o Fuer /\ explanations = <<TFuer>>)
          => results = <<Dafuer \o " " \o tooltip(TFuer, Fuer)>>

\* The term "Bahn" was applied to "Bahnhof Bahn" and wrapped one word.
WordBoundaryWitness ==
    /\ pc = "page"
    /\ content = "Bahnhof Bahn"
    /\ explanations = <<TBahn>>
    /\ Count(results[1], SpanOpen) = 1

----------------------------------------------------------------------------
(* C2 *)

\* The text of every innermost <span class="ew-term"> element of r: the
\* wrapped stretches of the working text that no later term has cut.
Surfaces(r) ==
    LET Body(j) == j + Len(TermOpen)
        End(j) == Min({m \in Body(j)..Len(r) : Char(r, m) = "<"})
    IN  {SubSeq(r, Body(j), End(j) - 1) :
            j \in {x \in Positions(r, TermOpen) :
                      SubSeq(r, End(x), End(x) + 6) = "</span>"}}

RECURSIVE FoldText(_)
FoldText(s) ==
    IF s = "" THEN "" ELSE Fold(Char(s, 1)) \o FoldText(SubSeq(s, 2, Len(s)))

\* C2 as claimed: every wrapped stretch equals the word of a term of the
\* list character for character, in the same letter case.
MatchesAreExact ==
    \A i \in DOMAIN results :
        \A s \in Surfaces(results[i]) :
            \E k \in DOMAIN explanations : s = escapeHtml(explanations[k].word)

\* C2, amended: every wrapped stretch equals the word of a term of the list
\* up to letter case, and nothing else is normalized: the term "schon" wraps
\* "Schon", which keeps its capital, and leaves Schoen alone.
MatchesAreExactUpToCase ==
    /\ \A i \in DOMAIN results :
          \A s \in Surfaces(results[i]) :
              \E k \in DOMAIN explanations :
                  FoldText(s) = FoldText(escapeHtml(explanations[k].word))
    /\ (pc # "input" /\ content = "Schon " \o Schoen /\ explanations = <<TSchon>>)
          => results = <<tooltip(TSchon, "Schon") \o " " \o Schoen>>

\* The term "schon" was applied to "Schon " \o Schoen and wrapped "Schon".
CaseWitness ==
    /\ pc = "page"
    /\ content = "Schon " \o Schoen
    /\ explanations = <<TSchon>>
    /\ Surfaces(results[1]) = {"Schon"}

----------------------------------------------------------------------------
(* C3 *)

\* C3 as claimed: highlighting a highlighted paragraph again with the same
\* terms gives the same text.
Idempotent == pc = "again" => again = results

----------------------------------------------------------------------------
(* C4 *)

\* The number of <span> elements open at index j of r.
Depth(r, j) ==
    Cardinality({m \in Positions(r, "<span") : m < j})
        - Cardinality({m \in Positions(r, "</span>") : m < j})

\* C4 as claimed: no annotation of the final text lies inside another
\* annotation, neither in its wrapped text nor in its tooltip.
NoNestedSpans ==
    (\A a, b \in DOMAIN explanations :
        a # b => explanations[a].word # explanations[b].word)
    => \A i \in DOMAIN results :
          \A j \in Positions(results[i], SpanOpen) : Depth(results[i], j) = 0

----------------------------------------------------------------------------
(* C5 *)

Words(exps) == {exps[k].word : k \in DOMAIN exps}

\* C5 as claimed: the terms are applied longest word first whatever the order
\* of the list, and for the terms "in" and "international", in either order,
\* the text "international news" gets one annotation, that of "international".
LongestMatchFirst ==
    /\ pc # "input" =>
          \A a, b \in DOMAIN sorted :
              a < b => Len(sorted[a].word) >= Len(sorted[b].word)
    /\ (pc # "input" /\ content = "international news"
           /\ Words(explanations) = {"in", "international"})
          => /\ Count(results[1], SpanOpen) = 1
             /\ Surfaces(results[1]) = {"international"}

----------------------------------------------------------------------------
(* C6 *)

\* The standalone occurrences of the word w in the paragraph p: the indexes
\* at which w stands with no letter before it and none after it, compared
\* character for character (Exact) or up to letter case (Fold).
ExactOcc(p, w) ==
    {j \in Positions(p, w) : NoLetterBefore(p, j) /\ NoLetterAt(p, j + Len(w))}

FoldOcc(p, w) ==
    {j \in Positions(FoldText(p), FoldText(w)) :
        NoLetterBefore(p, j) /\ NoLetterAt(p, j + Len(w))}

RECURSIVE WrapAt(_, _, _, _)
\* The paragraph p from index from on, with the stretch of Len(exp.word)
\* characters at each index of S replaced by its tooltip.
WrapAt(p, exp, S, from) ==
    LET later == {j \in S : j >= from}
    IN  IF later = {} THEN SubSeq(p, from, Len(p))
        ELSE LET j == Min(later)
                 e == j + Len(exp.word)
             IN  SubSeq(p, from, j - 1) \o tooltip(exp, SubSeq(p, j, e - 1))
                     \o WrapAt(p, exp, S, e)

\* No two occurrences of S share a character.
Disjoint(S, n) == \A a, b \in S : a < b => a + n <= b

\* Between any two occurrences of S lies at least one character.
Separated(S, n) == \A a, b \in S : a < b => a + n < b

\* C6 as claimed: with a single term, every standalone occurrence is wrapped,
\* each exactly once, from left to right, and the rest of the paragraph is as
\* it was.
EveryOccurrenceWrapped ==
    (pc # "input" /\ Len(explanations) = 1) =>
        \A i \in DOMAIN results :
            LET occ == FoldOcc(paragraphs[i], explanations[1].word)
            IN  /\ Disjoint(occ, Len(explanations[1].word))
                /\ results[i] = WrapAt(paragraphs[i], explanations[1], occ, 1)

\* C6, amended: with a single term, every standalone occurrence is wrapped,
\* each exactly once, from left to right, provided that no two standalone
\* occurrences overlap or touch.
EverySeparateOccurrenceWrapped ==
    (pc # "input" /\ Len(explanations) = 1) =>
        \A i \in DOMAIN results :
            LET occ == FoldOcc(paragraphs[i], explanations[1].word)
            IN  Separated(occ, Len(explanations[1].word))
                    => results[i] = WrapAt(paragraphs[i], explanations[1], occ, 1)

\* The term "Bahn" was applied to "Bahn Bahn" and wrapped both words.
CompletenessWitness ==
    /\ pc = "page"
    /\ content = "Bahn Bahn"
    /\ explanations = <<TBahn>>
    /\ ExactOcc(paragraphs[1], "Bahn") = {1, 6}
    /\ Count(results[1], SpanOpen) = 2

----------------------------------------------------------------------------
(* C7 *)

Specials == {"<", ">", "&", "\"", "'"}

Entities == {"&lt;", "&gt;", "&amp;", "&quot;", "&#39;"}

Tags == {"<span class=\"", "</span>", "<strong>", "</strong>", "<br/>", "<em>", "</em>"}

StartsAt(r, m, S) == \E x \in S : SubSeq(r, m, m + Len(x) - 1) = x

\* Every special character of the paragraph lies in a standalone occurrence
\* of a term of the list.
Covered(p, exps) ==
    \A m \in 1..Len(p) :
        Char(p, m) \in Specials =>
            \E k \in DOMAIN exps :
                \E j \in FoldOcc(p, exps[k].word) :
                    j <= m /\ m < j + Len(exps[k].word)

\* C7 as claimed: in the final text every ampersand begins one of the five
\* entities, there is no apostrophe, and every < begins a tag of the tooltip
\* markup: the special characters of the terms' fields and of the wrapped
\* text appear as entities only, and no later term has cut an entity.
TooltipEscaped ==
    \A i \in DOMAIN results :
        Covered(paragraphs[i], explanations) =>
            \A m \in 1..Len(results[i]) :
                /\ Char(results[i], m) = "&" => StartsAt(results[i], m, Entities)
                /\ Char(results[i], m) = "<" => StartsAt(results[i], m, Tags)
                /\ Char(results[i], m) # "'"

----------------------------------------------------------------------------
(* C8 *)

\* C8 as claimed: a paragraph in which no term of the list has a standalone
\* occurrence, the term taken character for character, is returned as it is.
NoMatchUnchanged ==
    \A i \in DOMAIN results :
        (\A k \in DOMAIN explanations :
            ExactOcc(paragraphs[i], explanations[k].word) = {})
        => results[i] = paragraphs[i]

\* C8, amended: a paragraph in which no term of the list has a standalone
\* occurrence, letter case ignored, is returned as it is, character for
\* character; so it is with an empty list, and the empty text gives the
\* empty text.
NoFoldMatchUnchanged ==
    /\ \A i \in DOMAIN results :
          (\A k \in DOMAIN explanations :
              FoldOcc(paragraphs[i], explanations[k].word) = {})
          => results[i] = paragraphs[i]
    /\ highlightWord("", explanations) = ""

\* The term "Bahn" was applied to "Bahnhof", where it does not stand alone.
NoMatchWitness ==
    /\ pc = "page"
    /\ content = "Bahnhof"
    /\ explanations = <<TBahn>>
    /\ results = <<"Bahnhof">>

----------------------------------------------------------------------------
(* C9 *)

NonBlank == {i \in DOMAIN paragraphs : paragraphs[i] # ""}

\* C9: a piece of the article text that is empty after trimming gives the
\* empty result and no element of the page; every other piece gives exactly
\* one <p> or <h3> element, whatever the term list is.
BlankParagraphsOmitted ==
    pc # "input" =>
        /\ Count(processed, "<p>") + Count(processed, "<h3 class=\"article-subheading\">")
              = Cardinality(NonBlank)
        /\ Count(processed, "</p>") + Count(processed, "</h3>") = Cardinality(NonBlank)
        /\ \A i \in DOMAIN paragraphs : paragraphs[i] = "" => results[i] = ""
        /\ NonBlank = {} => processed = ""

\* A heading followed by a blank piece was rendered as one element.
BlankParagraphWitness ==
    /\ pc = "page"
    /\ content = "Die Bahn\n\n "
    /\ paragraphs = <<"Die Bahn", "">>
    /\ Count(processed, "<h3 class=\"article-subheading\">") = 1
    /\ Count(processed, "<p>") = 0

----------------------------------------------------------------------------
(* C10 *)

Lacks(exp, f) == f \notin DOMAIN exp \/ exp[f] = ""

\* C10: when no term of the list has an example, the result has no example
\* element; a single term that stands in the paragraph is wrapped also when
\* its example or its part of speech is empty or missing, and without a part
\* of speech its tooltip has the empty line <em></em>.
OptionalFields ==
    pc # "input" =>
        /\ \A i \in DOMAIN results :
              /\ (\A k \in DOMAIN explanations : Lacks(explanations[k], "example"))
                    => ~Contains(results[i], "class=\"example\"")
              /\ (Len(explanations) = 1
                     /\ FoldOcc(paragraphs[i], explanations[1].word) # {})
                    => /\ Contains(results[i], SpanOpen)
                       /\ Lacks(explanations[1], "partOfSpeech")
                             => Contains(results[i], "<em></em>")
        /\ (content = "in" /\ explanations = <<TIn>>)
              => results = <<"<span class=\"explained-word beginner\"><span class=\"ew-term\">in</span><span class=\"tooltip-text\"><strong>in</strong><br/><em></em><br/>inside</span></span>">>

\* The term "in", which has neither example nor part of speech, was applied
\* to "in" and wrapped it.
OptionalFieldsWitness ==
    /\ pc = "page"
    /\ content = "in"
    /\ explanations = <<TIn>>
    /\ "example" \notin DOMAIN explanations[1]
    /\ "partOfSpeech" \notin DOMAIN explanations[1]
    /\ Contains(results[1], "<em></em>")

----------------------------------------------------------------------------
(* C11 *)

\* SyntaxCharacter of the pattern grammar.
SyntaxCharacters ==
    {"^", "$", "\\", ".", "*", "+", "?", "(", ")", "[", "]", "{", "}", "|"}

RECURSIVE OnlyLiterals(_)
\* The source of a pattern holds nothing but literal atoms: every syntax
\* character follows a backslash of its own.
OnlyLiterals(src) ==
    IF src = "" THEN TRUE
    ELSE IF Char(src, 1) = "\\"
         THEN /\ Len(src) >= 2
              /\ Char(src, 2) \in SyntaxCharacters
              /\ OnlyLiterals(SubSeq(src, 3, Len(src)))
         ELSE /\ Char(src, 1) \notin SyntaxCharacters
              /\ OnlyLiterals(SubSeq(src, 2, Len(src)))

\* s is w, but for the case of its letters.
SameButCase(s, w) ==
    /\ Len(s) = Len(w)
    /\ \A k \in 1..Len(w) :
          \/ Char(s, k) = Char(w, k)
          \/ Char(w, k) \in LetterSet /\ Fold(Char(s, k)) = Fold(Char(w, k))

\* C11: the pattern of every term is built, with every syntax character of
\* the word behind a backslash, so that it compiles; every paragraph gets a
\* result; and a wrapped stretch is the word of a term character for
\* character, a character that is no letter being matched by itself alone:
\* the term "a.b" wraps "a.b" and not "axb", the term "c++" wraps "c++".
MetacharactersLiteral ==
    pc # "input" =>
        /\ Len(patterns) = Len(explanations)
        /\ \A k \in DOMAIN patterns : OnlyLiterals(patterns[k])
        /\ DOMAIN results = DOMAIN paragraphs
        /\ \A i \in DOMAIN results :
              \A s \in Surfaces(results[i]) :
                  \E k \in DOMAIN explanations :
                      SameButCase(s, escapeHtml(explanations[k].word))
        /\ (content = "axb a.b" /\ explanations = <<TDot>>)
              => results = <<"axb " \o tooltip(TDot, "a.b")>>
        /\ (content = "c++ axb" /\ explanations = <<TCpp, TDot>>)
              => results = <<tooltip(TCpp, "c++") \o " axb">>

\* The term "a.b" was applied to "axb a.b" and wrapped the second word only.
MetacharactersWitness ==
    /\ pc = "page"
    /\ content = "axb a.b"
    /\ explanations = <<TDot>>
    /\ patterns = <<"a\\.b">>
    /\ Surfaces(results[1]) = {"a.b"}

----------------------------------------------------------------------------
(* C13 *)

\* C13 as claimed: a piece rendered as a heading has at least 3 and fewer
\* than 120 characters after trimming.
HeadingLengthExclusive ==
    (hpc = "rendered" /\ hVerdict = "heading")
        => (3 <= Len(hTrimmed) /\ Len(hTrimmed) < 120)

\* C13, amended: a piece rendered as a heading has at least 3 and at most 120
\* characters after trimming, both bounds included; a piece of 2 or of 121
\* characters is a paragraph.
HeadingLengthInclusive ==
    hpc = "rendered" =>
        /\ hVerdict = "heading" => (3 <= Len(hTrimmed) /\ Len(hTrimmed) <= 120)
        /\ hText = "Ab" => hMarkup = "<p>Ab</p>"
        /\ hText = "Abc" => hMarkup = "<h3 class=\"article-subheading\">Abc</h3>"
        /\ hText = "Abc C" \o Fill(115)
              => (Len(hTrimmed) = 120 /\ hVerdict = "heading")
        /\ hText = "Abc C" \o Fill(116)
              => (Len(hTrimmed) = 121 /\ hVerdict = "paragraph")

\* A piece of exactly 120 characters was rendered as a heading.
HeadingLengthWitness ==
    /\ hpc = "rendered"
    /\ Len(hTrimmed) = 120
    /\ hVerdict = "heading"
    /\ SubSeq(hMarkup, 1, 4) = "<h3 "

----------------------------------------------------------------------------
(* C14 *)

RECURSIVE Tokens(_)
\* The words of a text: its longest stretches without whitespace, in order.
Tokens(text) ==
    IF text = "" THEN <<>>
    ELSE IF Char(text, 1) \in WhiteSpace THEN Tokens(SubSeq(text, 2, Len(text)))
    ELSE LET ends == {i \in 1..Len(text) :
                         i = Len(text) \/ Char(text, i + 1) \in WhiteSpace}
             e == Min(ends)
         IN  <<SubSeq(text, 1, e)>> \o Tokens(SubSeq(text, e + 1, Len(text)))

\* The capital letters a heading word may begin with.
CapitalInitials ==
    {"A", "B", "C", "D", "E", "F", "G", "H", "I", "J", "K", "L", "M", "N", "O",
     "P", "Q", "R", "S", "T", "U", "V", "W", "X", "Y", "Z", Ae, Oe, Ue}

\* The number of words that begin with a capital letter.
Capitalized(toks) ==
    Cardinality({k \in DOMAIN toks : Char(toks[k], 1) \in CapitalInitials})

\* C14: a piece whose trimmed length the code lets through (3 to 120) is
\* rendered as a heading exactly when it does not end in ".", "!" or "?",
\* does not begin with "-", "*" or the bullet, has 1 to 12 words, and at
\* least 60% of the words begin with a capital letter: 3 of 5 words make a
\* heading, 1 of 2 does not, 12 words may and 13 words may not.
HeadingClassification ==
    hpc = "rendered" =>
        /\ (3 <= Len(hTrimmed) /\ Len(hTrimmed) <= 120) =>
              LET toks == Tokens(hTrimmed)
              IN  hVerdict = "heading" <=>
                      /\ Char(hTrimmed, Len(hTrimmed)) \notin {".", "!", "?"}
                      /\ Char(hTrimmed, 1) \notin {"-", "*", Bullet}
                      /\ Len(toks) >= 1
                      /\ Len(toks) <= 12
                      /\ 10 * Capitalized(toks) >= 6 * Len(toks)
        /\ hText = "Abc Bb Bb bb bb" => hVerdict = "heading"
        /\ hText = "Abc bb" => hVerdict = "paragraph"
        /\ hText = Ue \o "bc" => hVerdict = "heading"
        /\ hText = ue \o "bc" => hVerdict = "paragraph"
        /\ hText = "Abc" \o Repeat(" Bb", 8) \o Repeat(" bb", 3) => hVerdict = "heading"
        /\ hText = "Abc" \o Repeat(" Bb", 8) \o Repeat(" bb", 4) => hVerdict = "paragraph"
        /\ hText = "Abc" \o Repeat(" Bb", 8) \o Repeat(" bb", 2) \o " Ab"
              => hVerdict = "heading"
        /\ hText = "Abc" \o Repeat(" Bb", 8) \o Repeat(" bb", 2) \o " Ab C"
                      \o Fill(120 - 36 - 2)
              => hVerdict = "paragraph"

\* A piece of five words, three of them capitalized, was rendered as a
\* heading.
HeadingClassificationWitness ==
    /\ hpc = "rendered"
    /\ hText = "Abc Bb Bb bb bb"
    /\ hVerdict = "heading"
    /\ hMarkup = "<h3 class=\"article-subheading\">Abc Bb Bb bb bb</h3>"

----------------------------------------------------------------------------
(* C15 *)

\* The order f keeps the explanations of equal word length in the order they
\* have in the list.
KeepsTies(f) ==
    \A i, j \in DOMAIN f :
        (i < j /\ Len(explanations[f[i]].word) = Len(explanations[f[j]].word))
            => f[i] < f[j]

\* No annotation of the texts rs lies inside another one.
Flat(rs) ==
    \A i \in DOMAIN rs : \A j \in Positions(rs[i], SpanOpen) : Depth(rs[i], j) = 0

\* C15 as claimed: with the explanations in any other order every piece gets
\* the same result. The results in which an annotation lies inside another
\* one, the matter of C4, are left aside.
OrderIndependent ==
    (pc = "permuted" /\ Flat(results) /\ Flat(permuted)) => permuted = results

\* C15, amended: the result depends on the paragraph, on the set of terms and
\* on the order in which terms of equal word length are listed, and on
\* nothing else: every order of the list that keeps the terms of equal length
\* in their order gives the same result. The terms "zum Teil" and "Teil von"
\* applied to "zum Teil von" wrap what the first of them in the list matches.
OrderIndependentButTies ==
    /\ (pc = "permuted" /\ KeepsTies(order)) => permuted = results
    /\ (pc # "input" /\ content = "zum Teil von" /\ explanations = <<TZumTeil, TTeilVon>>)
          => results = <<tooltip(TZumTeil, "zum Teil") \o " von">>
    /\ (pc # "input" /\ content = "zum Teil von" /\ explanations = <<TTeilVon, TZumTeil>>)
          => results = <<"zum " \o tooltip(TTeilVon, "Teil von")>>

\* The terms "Kraft" and "in Kraft treten", listed shortest first, were
\* applied to "in Kraft treten" in the other order as well.
OrderWitness ==
    /\ pc = "permuted"
    /\ content = "in Kraft treten"
    /\ explanations = <<TKraft, TInKraftTreten>>
    /\ order = <<2, 1>>
    /\ sorted = <<TInKraftTreten, TKraft>>
    /\ permuted = results

----------------------------------------------------------------------------
(* C20 *)

\* A text with a character that is no whitespace.
HasText(s) == \E i \in 1..Len(s) : Char(s, i) \notin WhiteSpace

\* The indexes of the items among the first n of the feed that have a title
\* and a link.
Usable(n) ==
    {i \in 1..Len(feed) : i <= n /\ HasText(feed[i].title) /\ HasText(feed[i].link)}

\* The k-th of them.
UsableAt(n, k) ==
    CHOOSE i \in Usable(n) : Cardinality({j \in Usable(n) : j < i}) = k - 1

\* C20: getLatestArticles(limit) returns one article for each of the first
\* limit items of the feed that has a title and a link, in the order of the
\* feed, and nothing else: at most limit articles, each with a title and a
\* url, and no item after the first limit ones stands in for a dropped one.
LatestN ==
    fpc = "returned" =>
        /\ Len(latest) <= limit
        /\ Len(latest) = Cardinality(Usable(limit))
        /\ \A k \in DOMAIN latest :
              /\ latest[k].title # ""
              /\ latest[k].url # ""
              /\ Positions(feed[UsableAt(limit, k)].title, latest[k].title) # {}
              /\ Positions(feed[UsableAt(limit, k)].link, latest[k].url) # {}
        /\ (feed = <<ItemNoTitle, ItemA, ItemB>> /\ limit = 2)
              => (Len(latest) = 1 /\ latest[1].id = "101")

\* Of three items the first has no title; with the limit 2 the second is
\* returned and the third is not.
LatestNWitness ==
    /\ fpc = "returned"
    /\ feed = <<ItemNoTitle, ItemA, ItemB>>
    /\ limit = 2
    /\ Len(latest) = 1
    /\ latest[1].title = "Nachrichten vom Montag"

----------------------------------------------------------------------------
(* C19 *)

\* The id of the article begins with a digit: it parses as a number.
NumericId == cArticle.id # "" /\ Char(cArticle.id, 1) \in Chars("0123456789")

\* The endpoint answered with a text of more than 100 characters.
LongReply == cReply.kind = "text" /\ Len(cReply.text) > 100

\* The text r is the placeholder of the article: its title, its description,
\* the note on Deutsche Welle and its url, in this order.
IsPlaceholder(r) ==
    LET head == cArticle.title \o "\n\n" \o cArticle.description \o "\n\nDies ist ein Artikel"
        link == "Link lesen: " \o cArticle.url \o "\n\nNutzen Sie die Audio-Datei"
    IN  /\ Len(r) >= Len(head)
        /\ SubSeq(r, 1, Len(head)) = head
        /\ Contains(r, "von Deutsche Welle")
        /\ Contains(r, link)

\* C19: getArticleContent always returns. It returns the text of the answer
\* without its tags when the id parses as a number and the answer has a text
\* of more than 100 characters, and the placeholder made of title,
\* description and url in every other case: an id that is no number, a failed
\* request, an answer without text, a text of 100 characters or fewer.
FallbackContent ==
    /\ cpc \in {"idle", "parse", "fetch", "decide", "returned"}
    /\ cpc = "returned" =>
          /\ (NumericId /\ LongReply) =>
                /\ ~IsPlaceholder(cResult)
                /\ ~Contains(cResult, "<")
                /\ cReply.text = "<p>" \o Fill(94) \o "</p>" => cResult = Fill(94)
          /\ ~(NumericId /\ LongReply) => IsPlaceholder(cResult)
          /\ (cArticle.id = "101" /\ cReply.text = "<p>" \o Fill(93) \o "</p>")
                => IsPlaceholder(cResult)

\* The request for the article 101 failed and the placeholder was returned.
FallbackContentWitness ==
    /\ cpc = "returned"
    /\ cArticle.id = "101"
    /\ cId = [nan |-> FALSE, value |-> 101]
    /\ cReply.kind = "error"
    /\ IsPlaceholder(cResult)

----------------------------------------------------------------------------
(* C16 *)

\* The ids of the loaded records.
LoadedIds == {existingData[i].article.id : i \in DOMAIN existingData}

\* The run has written the data file of the day.
Saved == rpc = "website" \/ (rpc = "done" /\ newArticles # <<>>)

\* The sequence begins with the loaded records as they were loaded.
CarriesLoaded(data) ==
    /\ Len(data) >= Len(existingData)
    /\ \A i \in DOMAIN existingData : data[i] = existingData[i]

\* C16: once the data is loaded, no content fetch, no word-explanation call
\* and no quiz call is ever made for an article whose id a loaded record
\* has, and the loaded records stand unchanged in the data the run saves and
\* in the data it generates the site from.
IncrementalDeduplication ==
    rpc \notin {"idle", "load"} =>
        /\ \A k \in DOMAIN calls :
              calls[k].op \in {"content", "explain", "quiz"} => calls[k].id \notin LoadedIds
        /\ Saved => files[today].kind = "json" /\ CarriesLoaded(files[today].data)
        /\ website.generated => CarriesLoaded(website.data)

\* A run is over whose feed listed a processed article and a new one; the
\* new one was worked on, and the site holds both.
IncrementalWitness ==
    /\ rpc = "done"
    /\ \E i \in DOMAIN rss : ItemArticle(rss[i]).id \in LoadedIds
    /\ calls # <<>>
    /\ Saved
    /\ website.generated
    /\ Len(website.data) > Len(existingData)

----------------------------------------------------------------------------
(* C17 *)

\* The articles of the batch whose processing did not throw, in their order.
NotCaught == Filtered(newArticles, DOMAIN newArticles \ caught)

\* C17: when the loop is over, the processed list holds exactly the articles
\* whose processing did not throw, in the order of the batch, so that a
\* failed article is left out and the later ones are there; and a run with
\* new articles ends by returning, with the data saved and the site
\* generated from the loaded and the new records.
FailureIsolation ==
    /\ rpc \in {"save", "website", "done"} /\ newArticles # <<>> =>
          /\ Len(newProcessed) = Len(NotCaught)
          /\ \A i \in DOMAIN newProcessed : newProcessed[i].article = NotCaught[i]
    /\ rpc = "done" /\ newArticles # <<>> =>
          /\ exited = "returned"
          /\ files[today] = JsonFile(existingData \o newProcessed)
          /\ website = [generated |-> TRUE, data |-> existingData \o newProcessed]

----------------------------------------------------------------------------
(* C18 *)

\* The number of delays taken.
Delays == Cardinality({k \in DOMAIN calls : calls[k].op = "delay"})

\* The call k is made for the same article as the call before it, which is
\* of the kind op.
Follows(k, op) == k > 1 /\ calls[k - 1].op = op /\ calls[k - 1].id = calls[k].id

\* C18: the calls of one article follow one another (content fetch, word
\* explanations, quiz, delay), the content fetch of every article but the
\* first comes right after the delay of 2000 ms that closes the article
\* before it, and when the loop is over one delay has been taken for every
\* article except the last.
SequentialWithDelay ==
    /\ \A k \in DOMAIN calls :
          /\ calls[k].op = "explain" => Follows(k, "content")
          /\ calls[k].op = "quiz" => Follows(k, "explain")
          /\ calls[k].op = "delay" => Follows(k, "quiz") /\ calls[k].ms = 2000
          /\ calls[k].op = "content" /\ k > 1 =>
                /\ k > 4
                /\ calls[k - 1].op = "delay"
                /\ calls[k - 2].op = "quiz"
                /\ calls[k - 3].op = "explain"
                /\ calls[k - 4].op = "content"
    /\ rpc \in {"save", "website", "done"} /\ newArticles # <<>> =>
          Delays = Len(newArticles) - 1

----------------------------------------------------------------------------
(* C21 *)

\* The questions whose checked option is the one quizData names as correct.
RightlyAnswered == {i \in DOMAIN quizData : selected[i] = {ToString(quizData[i])}}

\* The class the claim gives to c correct answers out of t: the percentage
\* 100 c / t rounded to the nearest integer is below 60 exactly when
\* 200 c < 119 t, and below 80 exactly when 200 c < 159 t.
ClassFor(c, t) ==
    IF 200 * c < 119 * t THEN "poor" ELSE IF 200 * c < 159 * t THEN "okay" ELSE "good"

\* What holds of the page at every moment.
ScoredPage ==
    /\ \A i \in DOMAIN quizData : selected[i] = {} => ~feedbackShown[i]
    /\ quizResults.shown =>
          /\ checkDisabled
          /\ quizResults.total = Len(quizData)
          /\ quizResults.class = ClassFor(quizResults.correct, quizResults.total)

\* What holds of every step: the results appear with the count of the
\* rightly answered questions, and once shown they never change.
ScoredOnce ==
    /\ quizResults.shown => quizResults' = quizResults
    /\ ~quizResults.shown /\ quizResults'.shown =>
          quizResults'.correct = Cardinality(RightlyAnswered)

\* C21: when checkAnswers has run, the number reported as correct is the
\* number of questions whose selected option index equals correctAnswer; an
\* unanswered question is not counted and its feedback stays hidden; the
\* class is poor below 60 percent, okay from 60 to below 80, good otherwise;
\* and the button is disabled, so that the results are never computed again.
QuizScoring == [](ScoredPage) /\ [][ScoredOnce]_vars

\* Five questions scored: three right, one wrong, one unanswered, which is
\* 60 percent and okay.
QuizScoringWitness ==
    /\ quizResults.shown
    /\ Len(quizData) = 5
    /\ quizResults.correct = 3
    /\ quizResults.class = "okay"
    /\ \E i \in DOMAIN quizData : selected[i] = {}
    /\ \E i \in DOMAIN quizData : feedbackWrong[i]

----------------------------------------------------------------------------
(* C22 *)

DistinctIds(data) ==
    \A i, j \in DOMAIN data : i # j => data[i].article.id # data[j].article.id

\* C22: the list a run saves and the list it generates the site from hold at
\* most one record for every article id.
UniqueIds ==
    /\ Saved => DistinctIds(files[today].data)
    /\ website.generated => DistinctIds(website.data)

----------------------------------------------------------------------------
(* C23 *)

\* The records a run would load that started now.
LoadedNext == {loadExistingData(files)[i] : i \in DOMAIN loadExistingData(files)}

\* C23: every record that some run so far has loaded is among the records
\* the present run has loaded, as the same record, and when the run is over
\* it is among the records the next run will load.
NoLoss ==
    /\ rpc \notin {"idle", "load"} =>
          \A r \in everLoaded : \E i \in DOMAIN existingData : existingData[i] = r
    /\ rpc = "done" => everLoaded \subseteq LoadedNext

\* A second run on the same day has written the file of the day anew, with
\* the records it had loaded and a new one.
NoLossWitness ==
    /\ runNo = 2
    /\ rpc = "done"
    /\ filesBefore[today].kind = "json"
    /\ existingData # <<>>
    /\ files[today].kind = "json"
    /\ Len(files[today].data) > Len(existingData)

----------------------------------------------------------------------------
(* C24 *)

\* The request failed, or the answer was no JSON.
FailedReplies == {"error", "garbage"}

Last(seq) == seq[Len(seq)]

\* The records with an empty list in the files the run found.
FailureRecords ==
    {r \in UNION {{filesBefore[d].data[i] : i \in DOMAIN filesBefore[d].data} :
                     d \in DOMAIN filesBefore} :
        r.explanations = Arr(0) \/ r.quizzes = Arr(0)}

\* A failed word-explanation call gives the empty list and the quiz call
\* comes next; a failed quiz call gives the empty list; and every quiz call
\* ends with the record of the article appended, with the explanations got.
FailureGivesEmptyList ==
    (calls' # calls /\ calls' # <<>>) =>
        /\ (Last(calls').op = "explain" /\ lastReply' \in FailedReplies) =>
              explained' = Arr(0) /\ rpc' = "quiz"
        /\ Last(calls').op = "quiz" =>
              /\ Len(newProcessed') = Len(newProcessed) + 1
              /\ Last(newProcessed').article.id = Last(calls').id
              /\ Last(newProcessed').explanations = explained
              /\ lastReply' \in FailedReplies => Last(newProcessed').quizzes = Arr(0)

\* The appended records are saved, and a record with an empty list that a
\* run finds in the files is loaded and no call is made for its article.
FailureStays ==
    /\ Saved => \A i \in DOMAIN newProcessed :
                    \E j \in DOMAIN files[today].data : files[today].data[j] = newProcessed[i]
    /\ rpc \notin {"idle", "load"} =>
          \A r \in FailureRecords :
              /\ r.article.id \in LoadedIds
              /\ \A k \in DOMAIN calls : calls[k].id # r.article.id

\* C24: a failed word-explanation or quiz call gives an empty list, the
\* article is appended and saved with it, and in every later run the article
\* counts as processed: it is loaded and no call is made for it again.
FailurePermanent == [](FailureStays) /\ [][FailureGivesEmptyList]_vars

\* A second run is over whose feed listed an article saved with an empty list
\* and a new article, which was worked on.
FailurePermanentWitness ==
    /\ runNo = 2
    /\ rpc = "done"
    /\ calls # <<>>
    /\ \E r \in FailureRecords : \E i \in DOMAIN rss : ItemArticle(rss[i]).id = r.article.id

----------------------------------------------------------------------------
(* C25 *)

\* The feed of the run has articles, and a loaded record for each of them.
NothingNew ==
    /\ rssOk
    /\ getLatestArticles(rss, FeedLimit) # <<>>
    /\ \A i \in DOMAIN getLatestArticles(rss, FeedLimit) :
          getLatestArticles(rss, FeedLimit)[i].id \in LoadedIds

\* C25: a run that finds nothing new makes no call, leaves the data files as
\* they were, and ends with the site generated from the loaded records.
NoNewArticles ==
    (rpc = "done" /\ NothingNew) =>
        /\ calls = <<>>
        /\ files = filesBefore
        /\ exited = "returned"
        /\ website = [generated |-> TRUE, data |-> existingData]

----------------------------------------------------------------------------
(* C26 *)

FeedEmpty == rssOk /\ getLatestArticles(rss, FeedLimit) = <<>>

\* In a run whose feed fails or is empty no call is made and the files are
\* those the run found; it ends with exit code 1 or by returning.
NothingDone ==
    (rpc # "idle" /\ (~rssOk \/ FeedEmpty)) =>
        /\ calls = <<>>
        /\ files = filesBefore
        /\ rpc = "done" => exited = (IF rssOk THEN "returned" ELSE "exit1")

\* No step of such a run writes to ./data or to ./public.
NothingWrittenStep ==
    (rpc # "done" /\ (~rssOk \/ FeedEmpty)) => files' = files /\ website' = website

\* C26: when the feed fails the run ends with exit code 1, when it has no
\* article the run returns, and in both cases no data file and no file of
\* the site is written, whatever was there before.
NothingWritten == [](NothingDone) /\ [][NothingWrittenStep]_vars

\* The feed failed in a second run that had found data and a site.
NothingWrittenWitness ==
    /\ runNo = 2
    /\ rpc = "done"
    /\ ~rssOk
    /\ exited = "exit1"
    /\ existingData # <<>>
    /\ website.generated

----------------------------------------------------------------------------
(* C27 *)

\* C27: when generateWebsite is done, articles of different ids have
\* different slugs, every article has the file of its page, and there are as
\* many article files as articles.
OnePagePerArticle ==
    spc = "done" =>
        /\ \A i, j \in DOMAIN siteArticles :
              siteArticles[i].article.id # siteArticles[j].article.id =>
                  slugify(siteArticles[i].article.title) # slugify(siteArticles[j].article.title)
        /\ \A i \in DOMAIN siteArticles :
              \E f \in articleFiles : f.id = siteArticles[i].article.id
        /\ Cardinality(articleFiles) = Len(siteArticles)

----------------------------------------------------------------------------
(* C28 *)

\* C28: when generateWebsite is done, every article link of the index page
\* names a file of ./public/articles, and that file shows the article of the
\* link.
IndexLinksResolve ==
    spc = "done" =>
        \A k \in DOMAIN indexLinks :
            \E f \in articleFiles :
                /\ indexLinks[k].href = "articles/" \o f.file
                /\ f.id = indexLinks[k].id
                /\ f.title = indexLinks[k].title

====
